---- MODULE Spec2Model ----
(***************************************************************************)
(* Model of the TPC hardware probes of ClosedClaw                          *)
(* (src/agents/clawtalk/tpc/probes): the mode decision engine and its      *)
(* automatic probe sequence (decide.py), and the calibration link          *)
(* send.py -> recv.py (frame codec, UART bit framing, packet extraction).  *)
(*                                                                         *)
(* Units.  snr_db is a float in the code; the model counts it in tenths    *)
(* of a dB (20.0 dB = 200).  per is a float in [0,1]; the model counts it  *)
(* in hundredths (0.05 = 5, 1.0 = 100).  A confidence is counted in        *)
(* 1/1200 (1.0 = 1200).  Bytes are the integers 0..255.                    *)
(* A Python dict is a record with a field `has`, the set of keys present;  *)
(* a field whose key is not in `has` holds a filler and is never read.     *)
(***************************************************************************)
EXTENDS Integers, Sequences, FiniteSets, TLC

(***************************************************************************)
(* Bounds of the model                                                     *)
(***************************************************************************)
\* how far around each threshold the inputs are enumerated one by one
Near == 2
\* sequence numbers 0..MaxSeq are enumerated, with a few larger ones
MaxSeq == 2
\* a received bit sequence has at most MaxBits bits, any content
MaxBits == 11
\* a byte sequence given to the modulator has at most MaxData bytes
MaxData == 2
\* a byte stream of whole frames holds at most MaxFrames frames
MaxFrames == 3
\* recv.py --expected runs over 0..MaxExpected on such a stream
MaxExpected == 3

(***************************************************************************)
(* decide.py: constants                                                    *)
(***************************************************************************)
ULTRASONIC_SNR_THRESHOLD == 200
ULTRASONIC_PER_THRESHOLD == 5
AUDIBLE_SNR_THRESHOLD == 100
AUDIBLE_PER_THRESHOLD == 20

ULTRASONIC_FREQ0 == 18000
ULTRASONIC_FREQ1 == 20000
AUDIBLE_FREQ0 == 1200
AUDIBLE_FREQ1 == 2400
ULTRASONIC_BAUD == 150
AUDIBLE_BAUD == 300

\* Python's None in the carrier and baud fields of the file profile
NoneValue == 0

\* per=1.0, the value the orchestrator substitutes for a missing PER
PER_ONE == 100

(***************************************************************************)
(* Input values: the thresholds, their neighbourhoods, the examples of the *)
(* documentation and values far from every threshold.                      *)
(***************************************************************************)
SnrValues ==
    {-50, 0, 80, 150, 250, 300, 400, 450}
    \cup ((AUDIBLE_SNR_THRESHOLD - Near) .. (AUDIBLE_SNR_THRESHOLD + Near))
    \cup ((ULTRASONIC_SNR_THRESHOLD - Near) .. (ULTRASONIC_SNR_THRESHOLD + Near))

PerValues ==
    {0, 2, 10, 25, PER_ONE}
    \cup ((ULTRASONIC_PER_THRESHOLD - Near) .. (ULTRASONIC_PER_THRESHOLD + Near))
    \cup ((AUDIBLE_PER_THRESHOLD - Near) .. (AUDIBLE_PER_THRESHOLD + Near))

SampleRates == {32000, 44100, 48000}

\* default_samplerate of the default output device: below 2 * 20000, between
\* that and 2 * 22000, and above both
OutputRates == {32000, 40000, 44100, 48000}

\* sweep.py --end as auto_probe passes it, and the default of the option
SWEEP_END == 22000

(***************************************************************************)
(* decide.py: decide_mode.  The `reason` text of the profile is left out.  *)
(***************************************************************************)
\* confidence 1.0: confidence is counted in 1/1200, so that snr_db / 40.0
\* is 3 units and snr_db / 30.0 is 4 units per tenth of a dB
CONF_ONE == 1200

\* min(a, b)
Min(a, b) == IF a <= b THEN a ELSE b

\* decide_mode returning snr_db / 40.0 and snr_db / 30.0 without min(1.0, ...)
decide_mode_conf_unclamped(snr_db, per) ==
    IF snr_db >= ULTRASONIC_SNR_THRESHOLD /\ per <= ULTRASONIC_PER_THRESHOLD
    THEN [mode |-> "ultrasonic", freq0_hz |-> ULTRASONIC_FREQ0,
          freq1_hz |-> ULTRASONIC_FREQ1, baud_rate |-> ULTRASONIC_BAUD,
          confidence |-> 3 * snr_db]
    ELSE IF snr_db >= AUDIBLE_SNR_THRESHOLD /\ per <= AUDIBLE_PER_THRESHOLD
    THEN [mode |-> "audible", freq0_hz |-> AUDIBLE_FREQ0,
          freq1_hz |-> AUDIBLE_FREQ1, baud_rate |-> AUDIBLE_BAUD,
          confidence |-> 4 * snr_db]
    ELSE [mode |-> "file", freq0_hz |-> NoneValue,
          freq1_hz |-> NoneValue, baud_rate |-> NoneValue,
          confidence |-> CONF_ONE]

\* decide_mode with the strict comparisons of the module docstring
\* ("SNR > 20 dB and PER < 5%") in place of the inclusive ones
decide_mode_strict(snr_db, per) ==
    IF snr_db > ULTRASONIC_SNR_THRESHOLD /\ per < ULTRASONIC_PER_THRESHOLD
    THEN [mode |-> "ultrasonic", freq0_hz |-> ULTRASONIC_FREQ0,
          freq1_hz |-> ULTRASONIC_FREQ1, baud_rate |-> ULTRASONIC_BAUD,
          confidence |-> Min(CONF_ONE, 3 * snr_db)]
    ELSE IF snr_db > AUDIBLE_SNR_THRESHOLD /\ per < AUDIBLE_PER_THRESHOLD
    THEN [mode |-> "audible", freq0_hz |-> AUDIBLE_FREQ0,
          freq1_hz |-> AUDIBLE_FREQ1, baud_rate |-> AUDIBLE_BAUD,
          confidence |-> Min(CONF_ONE, 4 * snr_db)]
    ELSE [mode |-> "file", freq0_hz |-> NoneValue,
          freq1_hz |-> NoneValue, baud_rate |-> NoneValue,
          confidence |-> CONF_ONE]

\* decide_mode with the PER comparison of the audible branch turned round
decide_mode_per_reversed(snr_db, per) ==
    IF snr_db >= ULTRASONIC_SNR_THRESHOLD /\ per <= ULTRASONIC_PER_THRESHOLD
    THEN [mode |-> "ultrasonic", freq0_hz |-> ULTRASONIC_FREQ0,
          freq1_hz |-> ULTRASONIC_FREQ1, baud_rate |-> ULTRASONIC_BAUD,
          confidence |-> Min(CONF_ONE, 3 * snr_db)]
    ELSE IF snr_db >= AUDIBLE_SNR_THRESHOLD /\ per >= AUDIBLE_PER_THRESHOLD
    THEN [mode |-> "audible", freq0_hz |-> AUDIBLE_FREQ0,
          freq1_hz |-> AUDIBLE_FREQ1, baud_rate |-> AUDIBLE_BAUD,
          confidence |-> Min(CONF_ONE, 4 * snr_db)]
    ELSE [mode |-> "file", freq0_hz |-> NoneValue,
          freq1_hz |-> NoneValue, baud_rate |-> NoneValue,
          confidence |-> CONF_ONE]

decide_mode(snr_db, per) ==
    IF snr_db >= ULTRASONIC_SNR_THRESHOLD /\ per <= ULTRASONIC_PER_THRESHOLD
    THEN [mode |-> "ultrasonic", freq0_hz |-> ULTRASONIC_FREQ0,
          freq1_hz |-> ULTRASONIC_FREQ1, baud_rate |-> ULTRASONIC_BAUD,
          confidence |-> Min(CONF_ONE, 3 * snr_db)]
    ELSE IF snr_db >= AUDIBLE_SNR_THRESHOLD /\ per <= AUDIBLE_PER_THRESHOLD
    THEN [mode |-> "audible", freq0_hz |-> AUDIBLE_FREQ0,
          freq1_hz |-> AUDIBLE_FREQ1, baud_rate |-> AUDIBLE_BAUD,
          confidence |-> Min(CONF_ONE, 4 * snr_db)]
    ELSE [mode |-> "file", freq0_hz |-> NoneValue,
          freq1_hz |-> NoneValue, baud_rate |-> NoneValue,
          confidence |-> CONF_ONE]

\* filler of the `decision` field of a report that has no decision
NoDecision == [mode |-> "none", freq0_hz |-> NoneValue,
               freq1_hz |-> NoneValue, baud_rate |-> NoneValue,
               confidence |-> 0]

(***************************************************************************)
(* State                                                                   *)
(***************************************************************************)
VARIABLES
    pc,       \* position of decide.py main / auto_probe
    args,     \* parsed command line of decide.py
    steps,    \* auto_probe's list `steps`
    report,   \* the JSON report printed by main (meaningful when pc = "done")
    host,     \* the audio host decide.py runs on: its default output device
    calls,    \* the run_probe calls made so far: script and arguments
    lpc,          \* position of the calibration link send.py -> recv.py
    cfg,          \* what is sent and what the channel does to it
    samples,      \* the PCM buffer handed to demodulate_afsk, one symbol per bit window
    bits,         \* demodulate_afsk: the sliced bits
    demod_i,      \* demodulate_afsk: cursor i of the UART loop (0-based)
    raw_bytes,    \* demodulate_afsk: the bytes emitted so far
    raw_data,     \* extract_packets: the byte stream scanned
    extract_i,    \* extract_packets: cursor i (0-based)
    packets,      \* extract_packets: the records appended so far
    extents,      \* extract_packets: <<packet_start, packet_end>> of each of them
    recv_report,  \* the JSON report printed by recv.py main
    cli_pc,       \* position of one probe process, from start-up to exit
    inv,          \* the invocation: the probe, its environment and arguments
    proc,         \* what the process has done: exit code, stdout, audio, files
    osc,          \* modulate_afsk_ultrasonic: the sample loop and its oscillator
    fft,          \* one recording's spectrum and the SNR two programs compute of it
    run,          \* concurrent auto_probe runs: each one's place in step 3
    cal_wav,      \* the file at tempfile.gettempdir()/tpc_calibration.wav
    ipc,          \* ClosedClawIPC: socket, connected, running
    socks,        \* the sockets connect() has created, in order
    gui,          \* the GUI thread: where it is in connect, disconnect or send
    thr           \* the receive threads, one per connection established

decideVars == <<pc, args, steps, report, host, calls>>
linkVars == <<lpc, cfg, samples, bits, demod_i, raw_bytes, raw_data, extract_i,
              packets, extents, recv_report>>
cliVars == <<cli_pc, inv, proc>>
modVars == <<osc>>
\* the variables of the specifications that follow the first three
snrVars == <<fft>>
runVars == <<run, cal_wav>>
ipcVars == <<ipc, socks, gui, thr>>
restVars == <<modVars, snrVars, runVars, ipcVars>>
vars == <<decideVars, linkVars, cliVars, restVars>>

(***************************************************************************)
(* Sub-probe results.  A result is a dict; the keys the orchestrator reads *)
(* are success, devices, snr_db, per and error.  `error` holds the cause   *)
(* of a failure so that the causes can be told apart.                      *)
(***************************************************************************)
Dict(has, success, devices, snr_db, per, error) ==
    [has |-> has, success |-> success, devices |-> devices,
     snr_db |-> snr_db, per |-> per, error |-> error]

\* run_probe: the script is missing
ProbeNotFound == Dict({"success", "error"}, FALSE, "none", 0, 0, "not_found")
\* run_probe: the child exited with a non-zero code
ProbeExitCode == Dict({"success", "error"}, FALSE, "none", 0, 0, "exit_code")
\* run_probe parsing the partial output of a timed-out child
ProbeTimedOut_partial ==
    [has |-> {"success", "devices", "snr_db", "per"}, success |-> TRUE,
     devices |-> "ok", snr_db |-> ULTRASONIC_SNR_THRESHOLD, per |-> 0,
     error |-> "timeout"]

\* run_probe: subprocess.TimeoutExpired after 60 s
ProbeTimedOut == Dict({"success", "error"}, FALSE, "none", 0, 0, "timeout")
\* run_probe: stdout is not JSON
ProbeInvalidJson == Dict({"success", "error"}, FALSE, "none", 0, 0, "invalid_json")
\* run_probe: any other exception
ProbeException == Dict({"success", "error"}, FALSE, "none", 0, 0, "exception")

\* sweep.py --check-only prints {probe, mode, devices, timestamp}: no success key;
\* get_device_info returns the device table or {"error": ...}
SweepCheckOutput ==
    { Dict({"devices"}, FALSE, d, 0, 0, "none") : d \in {"ok", "error"} }

\* run_sweep without its check of the output device's sample rate
SweepRecordOutput_no_nyquist(output_sr) ==
    { Dict({"devices", "success", "error"}, FALSE, "error", 0, 0, "device"),
      Dict({"devices", "success", "error"}, FALSE, "ok", 0, 0, "portaudio") }
    \cup { Dict({"devices", "success", "snr_db"}, TRUE, "ok", s, 0, "none")
             : s \in SnrValues }

\* sweep.py --end 22000 --record (run_sweep) on a host whose output device
\* has the default sample rate output_sr
SweepRecordOutput(output_sr) ==
    { Dict({"devices", "success", "error"}, FALSE, "error", 0, 0, "device") }
    \cup
    IF output_sr < SWEEP_END * 2
    THEN { Dict({"devices", "success", "error"}, FALSE, "ok", 0, 0, "nyquist") }
    ELSE { Dict({"devices", "success", "error"}, FALSE, "ok", 0, 0, "portaudio") }
         \cup { Dict({"devices", "success", "snr_db"}, TRUE, "ok", s, 0, "none")
                  : s \in SnrValues }

\* send.py --freq0 18000 --freq1 20000 --output cal_wav
SendOutput(sample_rate) ==
    IF sample_rate < 2 * ULTRASONIC_FREQ1
    THEN { Dict({"success", "error"}, FALSE, "none", 0, 0, "nyquist") }
    ELSE { Dict({"success"}, TRUE, "none", 0, 0, "none"),
           Dict({"success", "error"}, FALSE, "none", 0, 0, "write_failed") }

\* recv.py --input cal_wav --expected 10
RecvOutput ==
    { Dict({"success", "error"}, FALSE, "none", 0, 0, "read_failed") }
    \cup { Dict({"success", "per"}, TRUE, "none", 0, p, "none") : p \in PerValues }

\* run_probe(script, args): every dict the call can return
run_probe(output) ==
    {ProbeNotFound, ProbeExitCode, ProbeTimedOut, ProbeInvalidJson, ProbeException}
    \cup output

\* dict.get(key, default) for the numeric keys
GetSnr(d, default) == IF "snr_db" \in d.has THEN d.snr_db ELSE default
GetPer(d, default) == IF "per" \in d.has THEN d.per ELSE default
\* truthiness of dict.get("success")
GetSuccess(d) == "success" \in d.has /\ d.success

(***************************************************************************)
(* Reports printed by decide.py                                            *)
(***************************************************************************)
Report(has, success, snr_db, per, decision, error) ==
    [has |-> has, success |-> success, snr_db |-> snr_db, per |-> per,
     decision |-> decision, error |-> error]

NoReport == Report({}, FALSE, 0, 0, NoDecision, "none")

\* one run_probe(script, args) call; freq0 and freq1 are the carriers given
\* with --freq0 and --freq1, NoneValue when the options are not given
Call(script, mode, freq0, freq1) ==
    [script |-> script, mode |-> mode, freq0 |-> freq0, freq1 |-> freq1]

Hosts == { [output_sr |-> r] : r \in OutputRates }

(***************************************************************************)
(* decide.py: command line.  `has` is the set of options given.  With      *)
(* --auto the other options are never read (main tests args.auto first),   *)
(* so they are enumerated as given / not given only; --sample-rate is read *)
(* by the automatic sequence only.                                         *)
(***************************************************************************)
Options == {"snr", "per", "sweep_result", "recv_result"}

Args(auto, has, snr, per, sample_rate) ==
    [auto |-> auto, has |-> has, snr |-> snr, per |-> per,
     sample_rate |-> sample_rate]

ArgCombos ==
    { Args(TRUE, h, 0, 0, sr) : h \in SUBSET Options, sr \in SampleRates }
    \cup
    { Args(FALSE, h, s, p, 48000) :
        h \in SUBSET Options,
        s \in SnrValues \cup {0},
        p \in PerValues \cup {0} }

\* an option not given holds the filler 0
WellFormedArgs(a) ==
    /\ ("snr" \notin a.has => a.snr = 0)
    /\ ("per" \notin a.has => a.per = 0)

\* json.load of a --sweep-result / --recv-result file: the file cannot be
\* read or parsed, or it holds something the code cannot use (not an object,
\* a non-numeric value), or it holds an object with or without the key
FileLoads ==
    { [ok |-> FALSE, usable |-> FALSE, sweep |-> ProbeException, recv |-> ProbeException] }
    \cup
    { [ok |-> TRUE, usable |-> FALSE, sweep |-> ProbeException, recv |-> ProbeException] }
    \cup
    { [ok |-> TRUE, usable |-> TRUE, sweep |-> sw, recv |-> rv] :
        sw \in { Dict({}, FALSE, "none", 0, 0, "none") }
               \cup { Dict({"snr_db"}, FALSE, "none", s, 0, "none") : s \in SnrValues },
        rv \in { Dict({}, FALSE, "none", 0, 0, "none") }
               \cup { Dict({"per"}, FALSE, "none", 0, p, "none") : p \in PerValues } }

(***************************************************************************)
(* Init: decide.py has parsed its arguments and main is about to branch.   *)
(***************************************************************************)
DecideInit ==
    /\ pc = "main"
    /\ args \in { a \in ArgCombos : WellFormedArgs(a) }
    /\ steps = << >>
    /\ report = NoReport
    /\ host \in Hosts
    /\ calls = << >>

(***************************************************************************)
(* decide.py main, the three branches that do not run the probes           *)
(***************************************************************************)
\* main: --auto given, enter auto_probe
MainAuto ==
    /\ pc = "main"
    /\ args.auto
    /\ pc' = "device_check"
    /\ UNCHANGED <<args, steps, report, host, calls>>
    /\ UNCHANGED <<linkVars, cliVars, restVars>>

\* main: --snr and --per given
MainDirect ==
    /\ pc = "main"
    /\ ~args.auto
    /\ {"snr", "per"} \subseteq args.has
    /\ report' = Report({"snr_db", "per", "decision", "success"}, TRUE,
                        args.snr, args.per, decide_mode(args.snr, args.per), "none")
    /\ pc' = "done"
    /\ UNCHANGED <<args, steps, host, calls>>
    /\ UNCHANGED <<linkVars, cliVars, restVars>>

\* main: --sweep-result and --recv-result given
MainFiles ==
    /\ pc = "main"
    /\ ~args.auto
    /\ ~({"snr", "per"} \subseteq args.has)
    /\ {"sweep_result", "recv_result"} \subseteq args.has
    /\ \E f \in FileLoads :
         LET snr_db == GetSnr(f.sweep, 0)
             per == GetPer(f.recv, PER_ONE)
         IN  report' =
               IF ~f.ok
               THEN Report({"success", "error"}, FALSE, 0, 0, NoDecision, "exception")
               ELSE IF ~f.usable
               THEN Report({"success", "error"}, FALSE, 0, 0, NoDecision, "exception")
               ELSE Report({"snr_db", "per", "sweep_result", "recv_result",
                            "decision", "success"}, TRUE,
                           snr_db, per, decide_mode(snr_db, per), "none")
    /\ pc' = "done"
    /\ UNCHANGED <<args, steps, host, calls>>
    /\ UNCHANGED <<linkVars, cliVars, restVars>>

\* main: no complete group of options
MainUsage ==
    /\ pc = "main"
    /\ ~args.auto
    /\ ~({"snr", "per"} \subseteq args.has)
    /\ ~({"sweep_result", "recv_result"} \subseteq args.has)
    /\ report' = Report({"success", "error"}, FALSE, 0, 0, NoDecision, "usage")
    /\ pc' = "done"
    /\ UNCHANGED <<args, steps, host, calls>>
    /\ UNCHANGED <<linkVars, cliVars, restVars>>

(***************************************************************************)
(* decide.py auto_probe, one action per sub-probe call.  The action that   *)
(* returns from auto_probe also does main's result.update and print.       *)
(***************************************************************************)
Step(name, result) == [step |-> name, result |-> result]

\* the sweep step's snr_db, once the sweep succeeded
SweepSnr(st) == GetSnr(st[2].result, 0)

\* the device check run again after a failure
DeviceCheck_retry ==
    /\ pc = "device_check"
    /\ \E sweep_check \in run_probe(SweepCheckOutput) :
         /\ steps' = Append(steps, Step("device_check", sweep_check))
         /\ IF "devices" \notin sweep_check.has \/ sweep_check.devices = "error"
            THEN /\ pc' = "device_check"
                 /\ UNCHANGED report
            ELSE /\ pc' = "sweep"
                 /\ UNCHANGED report
    /\ calls' = Append(calls, Call("sweep.py", "check_only", NoneValue, NoneValue))
    /\ UNCHANGED <<args, host>>
    /\ UNCHANGED <<linkVars, cliVars, restVars>>

\* Step 1: sweep.py --check-only
DeviceCheck ==
    /\ pc = "device_check"
    /\ \E sweep_check \in run_probe(SweepCheckOutput) :
         /\ steps' = Append(steps, Step("device_check", sweep_check))
         /\ IF "devices" \notin sweep_check.has \/ sweep_check.devices = "error"
            THEN /\ report' = Report({"success", "error", "steps", "decision"}, FALSE,
                                     0, 0, decide_mode(0, PER_ONE), "no_devices")
                 /\ pc' = "done"
            ELSE /\ pc' = "sweep"
                 /\ UNCHANGED report
    /\ calls' = Append(calls, Call("sweep.py", "check_only", NoneValue, NoneValue))
    /\ UNCHANGED <<args, host>>
    /\ UNCHANGED <<linkVars, cliVars, restVars>>

\* the sweep step returning its failure report without a decision
Sweep_no_decision ==
    /\ pc = "sweep"
    /\ \E sweep_result \in run_probe(SweepRecordOutput(host.output_sr)) :
         /\ steps' = Append(steps, Step("sweep", sweep_result))
         /\ IF ~GetSuccess(sweep_result)
            THEN /\ report' = Report({"success", "error", "steps"}, FALSE,
                                     0, 0, NoDecision, "sweep_failed")
                 /\ pc' = "done"
            ELSE /\ pc' = "send"
                 /\ UNCHANGED report
    /\ calls' = Append(calls, Call("sweep.py", "record", NoneValue, NoneValue))
    /\ UNCHANGED <<args, host>>
    /\ UNCHANGED <<linkVars, cliVars, restVars>>

\* Step 2: sweep.py --start 17000 --end 22000 --record
Sweep ==
    /\ pc = "sweep"
    /\ \E sweep_result \in run_probe(SweepRecordOutput(host.output_sr)) :
         /\ steps' = Append(steps, Step("sweep", sweep_result))
         /\ IF ~GetSuccess(sweep_result)
            THEN /\ report' = Report({"success", "error", "steps", "decision"}, FALSE,
                                     0, 0, decide_mode(0, PER_ONE), "sweep_failed")
                 /\ pc' = "done"
            ELSE /\ pc' = "send"
                 /\ UNCHANGED report
    /\ calls' = Append(calls, Call("sweep.py", "record", NoneValue, NoneValue))
    /\ UNCHANGED <<args, host>>
    /\ UNCHANGED <<linkVars, cliVars, restVars>>

\* the send step going on to recv although send failed
SendCalibration_no_fallback ==
    /\ pc = "send"
    /\ \E send_result \in run_probe(SendOutput(args.sample_rate)) :
         steps' = Append(steps, Step("send_calibration", send_result))
    /\ pc' = "recv"
    /\ calls' = Append(calls, Call("send.py", "output", ULTRASONIC_FREQ0, ULTRASONIC_FREQ1))
    /\ UNCHANGED <<args, report, host>>
    /\ UNCHANGED <<linkVars, cliVars, restVars>>

\* Step 3: send.py --output cal_wav
SendCalibration ==
    /\ pc = "send"
    /\ \E send_result \in run_probe(SendOutput(args.sample_rate)) :
         /\ steps' = Append(steps, Step("send_calibration", send_result))
         /\ IF ~GetSuccess(send_result)
            THEN /\ report' = Report({"success", "snr_db", "per", "steps", "decision"},
                                     TRUE, SweepSnr(steps), PER_ONE,
                                     decide_mode(SweepSnr(steps), PER_ONE), "none")
                 /\ pc' = "done"
            ELSE /\ pc' = "recv"
                 /\ UNCHANGED report
    /\ calls' = Append(calls, Call("send.py", "output", ULTRASONIC_FREQ0, ULTRASONIC_FREQ1))
    /\ UNCHANGED <<args, host>>
    /\ UNCHANGED <<linkVars, cliVars, restVars>>

\* the recv step reading per with the default 0 and without testing success
RecvCalibration_default_zero ==
    /\ pc = "recv"
    /\ \E recv_result \in run_probe(RecvOutput) :
         LET per == GetPer(recv_result, 0)
             snr_db == SweepSnr(steps)
         IN  /\ steps' = Append(steps, Step("recv_calibration", recv_result))
             /\ report' = Report({"success", "snr_db", "per", "steps", "decision"},
                                 TRUE, snr_db, per, decide_mode(snr_db, per), "none")
             /\ pc' = "done"
    /\ calls' = Append(calls, Call("recv.py", "input", ULTRASONIC_FREQ0, ULTRASONIC_FREQ1))
    /\ UNCHANGED <<args, host>>
    /\ UNCHANGED <<linkVars, cliVars, restVars>>

\* Step 3, second half: recv.py --input cal_wav; then Step 4, the decision
RecvCalibration ==
    /\ pc = "recv"
    /\ \E recv_result \in run_probe(RecvOutput) :
         LET per == IF GetSuccess(recv_result) THEN GetPer(recv_result, PER_ONE)
                    ELSE PER_ONE
             snr_db == SweepSnr(steps)
         IN  /\ steps' = Append(steps, Step("recv_calibration", recv_result))
             /\ report' = Report({"success", "snr_db", "per", "steps", "decision"},
                                 TRUE, snr_db, per, decide_mode(snr_db, per), "none")
             /\ pc' = "done"
    /\ calls' = Append(calls, Call("recv.py", "input", ULTRASONIC_FREQ0, ULTRASONIC_FREQ1))
    /\ UNCHANGED <<args, host>>
    /\ UNCHANGED <<linkVars, cliVars, restVars>>

DecideNext ==
    \/ MainAuto
    \/ MainDirect
    \/ MainFiles
    \/ MainUsage
    \/ DeviceCheck
    \/ Sweep
    \/ SendCalibration
    \/ RecvCalibration

(***************************************************************************)
(* send.py / recv.py: the calibration frame codec                          *)
(***************************************************************************)
CALIBRATION_MAGIC == <<202, 27, 218, 122>>
CALIBRATION_PAYLOAD ==
    <<84, 80, 67, 45, 67, 65, 76, 73, 66, 82, 65, 84, 69, 45, 50, 48, 50, 54>>

\* Python slice s[a:b] with 0 <= a (0-based, end exclusive, clipped to the end)
Slice(s, a, b) ==
    LET e == IF b > Len(s) THEN Len(s) ELSE b
    IN  IF a >= e THEN << >> ELSE [k \in 1..(e - a) |-> s[a + k]]

\* the two bytes packed little-endian ("<H")
PackH_little_endian(n) == <<n % 256, n \div 256>>

\* struct.pack(">H", n) for n in [0, 2^16)
PackH(n) == <<n \div 256, n % 256>>
\* struct.unpack(">H", b)[0]
UnpackH(b) == b[1] * 256 + b[2]

\* hashlib.sha256(m).digest().  The library function is not part of the
\* repository; it is modelled as a fixed function from messages to 32 bytes
\* that sends different 24-byte messages to different digests
\* (the code relies on nothing else: it only compares digests for equality).
DIGEST_SIZE == 32
Sha256(m) ==
    CHOOSE digest \in
        { [k \in 1..DIGEST_SIZE |->
              IF k <= Len(msg) THEN 255 - msg[k] ELSE (Len(msg) + k) % 256] :
          msg \in {m} } : TRUE

generate_calibration_packet(seq) ==
    LET seq_bytes == PackH(seq)
        digest == Sha256(CALIBRATION_MAGIC \o seq_bytes \o CALIBRATION_PAYLOAD)
        packet == CALIBRATION_MAGIC \o seq_bytes \o CALIBRATION_PAYLOAD \o digest
        length_bytes == PackH(Len(packet))
    IN  length_bytes \o packet

(***************************************************************************)
(* send.py: modulate_afsk_ultrasonic.  The PCM buffer is modelled at the   *)
(* granularity of one bit window: samples_per_bit consecutive samples of a *)
(* tone are one symbol, "f0" (a sine at freq0), "f1" (a sine at freq1) or  *)
(* "silence" (zeros).                                                      *)
(***************************************************************************)
PREAMBLE_PAIRS == 16
POSTAMBLE_BITS == 16

RECURSIVE Repeat(_, _)
Repeat(s, n) == IF n <= 0 THEN << >> ELSE s \o Repeat(s, n - 1)

\* the data bits sent LSB-first (b = 0 up to 7)
ByteBits_lsb_first(byte) == [k \in 1..8 |-> (byte \div (2 ^ (k - 1))) % 2]

\* (byte >> b) & 1 for b = 7 down to 0
ByteBits(byte) == [k \in 1..8 |-> (byte \div (2 ^ (8 - k))) % 2]

RECURSIVE FrameBytes(_)
FrameBytes(data) ==
    IF data = << >> THEN << >>
    ELSE <<0>> \o ByteBits(Head(data)) \o <<1>> \o FrameBytes(Tail(data))

\* the list `bits` assembled by the modulator
ModulatorBits(data) ==
    Repeat(<<1, 0>>, PREAMBLE_PAIRS) \o FrameBytes(data) \o Repeat(<<1>>, POSTAMBLE_BITS)

\* freq = freq0 if bit == 0 else freq1, samples_per_bit samples of it
modulate_afsk_ultrasonic(data) ==
    LET tx_bits == ModulatorBits(data)
    IN  [k \in 1..Len(tx_bits) |-> IF tx_bits[k] = 0 THEN "f0" ELSE "f1"]

(***************************************************************************)
(* send.py main: command line defaults and the batch                       *)
(***************************************************************************)
SAMPLE_RATE == 48000
BAUD == 150
GAP_MS == 200
PACKETS == 10

\* int(sample_rate / baud_rate)
samples_per_bit == SAMPLE_RATE \div BAUD
\* len(gap_samples) = int(sample_rate * gap_ms / 1000)
gap_len == (SAMPLE_RATE * GAP_MS) \div 1000
\* the gap is a whole number of bit windows (9600 = 30 * 320), so the windows
\* of the receiver stay aligned with the bits of every packet of the batch
GapWindows == gap_len \div samples_per_bit

\* for seq in range(packets): all_samples = all_samples ++ modulated ++ gap
RECURSIVE BatchSamples(_, _)
BatchSamples(seq, num_packets) ==
    IF seq >= num_packets THEN << >>
    ELSE modulate_afsk_ultrasonic(generate_calibration_packet(seq))
         \o Repeat(<<"silence">>, GapWindows)
         \o BatchSamples(seq + 1, num_packets)

(***************************************************************************)
(* recv.py: demodulate_afsk, bit slicing.  goertzel(chunk, freq0) exceeds  *)
(* goertzel(chunk, freq1) on a window holding the freq0 tone; on the freq1 *)
(* tone it is smaller; on silence both are 0 and `p0 > p1` is false.       *)
(***************************************************************************)
SliceBit(symbol) == IF symbol = "f0" THEN 0 ELSE 1

SliceBits(pcm) == [k \in 1..Len(pcm) |-> SliceBit(pcm[k])]

\* the eight data bits read LSB-first
ByteVal_lsb_first(bs, i) ==
    bs[i + 2] + bs[i + 3] * 2 + bs[i + 4] * 4 + bs[i + 5] * 8
    + bs[i + 6] * 16 + bs[i + 7] * 32 + bs[i + 8] * 64 + bs[i + 9] * 128

\* byte_val = (byte_val << 1) | bits[i + 1 + b] for b in range(8); i is 0-based
ByteVal(bs, i) ==
    bs[i + 2] * 128 + bs[i + 3] * 64 + bs[i + 4] * 32 + bs[i + 5] * 16
    + bs[i + 6] * 8 + bs[i + 7] * 4 + bs[i + 8] * 2 + bs[i + 9]

\* a framing error skipping the whole 10-bit frame instead of sliding one bit
UartBody_skip_frame(bs, i, raw) ==
    IF bs[i + 1] = 0
    THEN IF i + 9 >= Len(bs)
         THEN [i |-> i, raw_bytes |-> raw, brk |-> TRUE]
         ELSE IF bs[i + 10] = 1
              THEN [i |-> i + 10, raw_bytes |-> Append(raw, ByteVal(bs, i)), brk |-> FALSE]
              ELSE [i |-> i + 10, raw_bytes |-> raw, brk |-> FALSE]
    ELSE [i |-> i + 1, raw_bytes |-> raw, brk |-> FALSE]

\* the body of `while i < len(bits)`, entered with the cursor i (0-based) and
\* the bytes emitted so far: the new cursor, the new bytes, and whether the
\* body left the loop by `break`
UartBody(bs, i, raw) ==
    IF bs[i + 1] = 0
    THEN IF i + 9 >= Len(bs)
         THEN [i |-> i, raw_bytes |-> raw, brk |-> TRUE]
         ELSE IF bs[i + 10] = 1
              THEN [i |-> i + 10, raw_bytes |-> Append(raw, ByteVal(bs, i)), brk |-> FALSE]
              ELSE [i |-> i + 1, raw_bytes |-> raw, brk |-> FALSE]
    ELSE [i |-> i + 1, raw_bytes |-> raw, brk |-> FALSE]

\* the while loop run from the state st for at most n iterations.  The
\* iterations are done in two halves only to keep the evaluation shallow; the
\* result is that of n iterations in a row.
RECURSIVE UartRun(_, _, _)
UartRun(bs, st, n) ==
    IF n <= 0 \/ st.brk \/ ~(st.i < Len(bs)) THEN st
    ELSE IF n = 1 THEN UartBody(bs, st.i, st.raw_bytes)
    ELSE LET mid == UartRun(bs, st, n \div 2)
         IN  IF mid.brk THEN mid ELSE UartRun(bs, mid, n - (n \div 2))

\* the whole loop: every iteration that stays in the loop moves the cursor
\* forward, so Len(bs) iterations reach the end
UartLoop(bs) ==
    UartRun(bs, [i |-> 0, raw_bytes |-> << >>, brk |-> FALSE], Len(bs)).raw_bytes

\* demodulate_afsk(samples, freq0, freq1, sample_rate, baud_rate)
demodulate_afsk(pcm) == UartLoop(SliceBits(pcm))

(***************************************************************************)
(* recv.py: extract_packets helpers                                        *)
(***************************************************************************)
MIN_BODY == 56

\* bytes.find(sub, start): lowest 0-based index >= start, or -1
Find(raw, sub, start) ==
    LET hits == { m \in start..(Len(raw) - Len(sub)) :
                    Slice(raw, m, m + Len(sub)) = sub }
    IN  IF hits = {} THEN -1
        ELSE CHOOSE m \in hits : \A h \in hits : m <= h

\* intact computed as `valid or payload_match`
PacketRecord_either(raw, magic_idx) ==
    LET length == UnpackH(Slice(raw, magic_idx - 2, magic_idx))
        packet_start == magic_idx - 2
        packet_end == packet_start + 2 + length
        packet_body == Slice(raw, packet_start + 2, packet_end)
        magic == Slice(packet_body, 0, 4)
        seq == UnpackH(Slice(packet_body, 4, 6))
        payload == Slice(packet_body, 6, 24)
        received_hash == Slice(packet_body, 24, 56)
        expected_hash == Sha256(magic \o Slice(packet_body, 4, 6) \o payload)
        valid == received_hash = expected_hash
        payload_match == payload = CALIBRATION_PAYLOAD
    IN  [seq |-> seq, valid_hash |-> valid, payload_match |-> payload_match,
         intact |-> valid \/ payload_match]

\* the dict appended to `packets` for the magic at magic_idx
PacketRecord(raw, magic_idx) ==
    LET length == UnpackH(Slice(raw, magic_idx - 2, magic_idx))
        packet_start == magic_idx - 2
        packet_end == packet_start + 2 + length
        packet_body == Slice(raw, packet_start + 2, packet_end)
        magic == Slice(packet_body, 0, 4)
        seq == UnpackH(Slice(packet_body, 4, 6))
        payload == Slice(packet_body, 6, 24)
        received_hash == Slice(packet_body, 24, 56)
        expected_hash == Sha256(magic \o Slice(packet_body, 4, 6) \o payload)
        valid == received_hash = expected_hash
        payload_match == payload = CALIBRATION_PAYLOAD
    IN  [seq |-> seq, valid_hash |-> valid, payload_match |-> payload_match,
         intact |-> valid /\ payload_match]

(***************************************************************************)
(* The calibration link: what is sent and what reaches the receiver.       *)
(*   single : one frame, modulated on its own and demodulated; the         *)
(*            recording may stop `cut` bit windows before the end          *)
(*   batch  : send.py main with --packets n, then recv.py main with        *)
(*            --expected n on the same PCM buffer                          *)
(*   bytes  : a byte stream handed to extract_packets: `lead` bytes, then  *)
(*            the frame for seq without its first `drop` bytes and with    *)
(*            the byte at offset pos (if pos >= 0) replaced by val         *)
(*   stream : a byte stream handed to extract_packets by recv.py main run  *)
(*            with --expected n: the frames for seq 0, 1, ... one after    *)
(*            the other, each as `frames` says: "ok" as sent, "bad" with   *)
(*            one payload byte changed, "len58" with the length field 58,  *)
(*            "nolen" without its two length bytes, "halflen" without the  *)
(*            first of them; then, if pos >= 0, the byte at offset pos of  *)
(*            the whole stream replaced by val                             *)
(*   data   : the bytes `data` modulated as one transmission, demodulated  *)
(*   line   : the bits `line` as the bit slicer delivers them              *)
(***************************************************************************)
Seqs == (0..MaxSeq) \cup {255, 256, 65535}
BatchSizes == {1, 2, PACKETS}
Cuts == {0, POSTAMBLE_BITS + 1, POSTAMBLE_BITS + 15}
Leads == { << >>, <<170, 170, 170>> }
FRAME_SIZE == 58

Cfg(kind, seq, n, cut, lead, drop, pos, val) ==
    [kind |-> kind, seq |-> seq, n |-> n, cut |-> cut, lead |-> lead,
     drop |-> drop, pos |-> pos, val |-> val,
     frames |-> << >>, data |-> << >>, line |-> << >>]

StreamCfg(expected, frames) ==
    [Cfg("stream", 0, expected, 0, << >>, 0, -1, 0) EXCEPT !.frames = frames]
DataCfg(data) ==
    [Cfg("data", 0, 0, 0, << >>, 0, -1, 0) EXCEPT !.data = data]
LineCfg(line) ==
    [Cfg("line", 0, 0, 0, << >>, 0, -1, 0) EXCEPT !.line = line]

\* all sequences over S of length 0..n
SeqsUpTo(S, n) == UNION { [1..k -> S] : k \in 0..n }

FrameVariants == {"ok", "bad", "len58"}
\* a first frame whose length prefix did not survive: its magic lies at
\* offset 0 or 1 of the stream
EarlyVariants == {"nolen", "halflen"}
\* byte values given to the modulator: all zeros, all ones, both alternations,
\* the lowest and the highest single bit
DataBytes == {0, 1, 85, 128, 170, 255}

\* offset of the first payload byte in a frame: after length, magic and seq
PAYLOAD_OFFSET == 8

\* the frame for seq as the variant v says
FrameVariant(seq, v) ==
    LET frame == generate_calibration_packet(seq)
    IN  IF v = "bad"
        THEN [frame EXCEPT ![PAYLOAD_OFFSET + 1] = (frame[PAYLOAD_OFFSET + 1] + 1) % 256]
        ELSE IF v = "len58" THEN [frame EXCEPT ![2] = FRAME_SIZE]
        ELSE IF v = "nolen" THEN Slice(frame, 2, Len(frame))
        ELSE IF v = "halflen" THEN Slice(frame, 1, Len(frame))
        ELSE frame

RECURSIVE StreamBytes(_, _)
StreamBytes(frames, seq) ==
    IF frames = << >> THEN << >>
    ELSE FrameVariant(seq, Head(frames)) \o StreamBytes(Tail(frames), seq + 1)

\* n frames as sent
OkFrames(n) == [k \in 1..n |-> "ok"]

\* the stream of n frames as sent with the byte at offset pos replaced by val
StreamHitCfg(n, pos, val) ==
    [StreamCfg(n, OkFrames(n)) EXCEPT !.pos = pos, !.val = val]

IdleCfg == Cfg("idle", 0, 0, 0, << >>, 0, -1, 0)

\* replacement values for a corrupted byte: its neighbour, its complement, 0
\* and the four magic bytes
CorruptValues(orig) ==
    ({(orig + 1) % 256, 255 - orig, 0} \cup {CALIBRATION_MAGIC[k] : k \in 1..4})
    \ {orig}

LinkConfigs ==
    { Cfg("single", q, 1, c, << >>, 0, -1, 0) : q \in Seqs, c \in Cuts }
    \cup { Cfg("batch", 0, n, 0, << >>, 0, -1, 0) : n \in BatchSizes }
    \cup { Cfg("bytes", q, 1, 0, l, d, -1, 0) : q \in Seqs, l \in Leads, d \in 0..2 }
    \cup UNION { { Cfg("bytes", q, 1, 0, l, 0, p, v) :
                     v \in CorruptValues(generate_calibration_packet(q)[p + 1]) } :
                 q \in Seqs, l \in Leads, p \in 0..(FRAME_SIZE - 1) }
    \cup { StreamCfg(e, f) : e \in 0..MaxExpected, f \in SeqsUpTo(FrameVariants, MaxFrames) }
    \cup { StreamCfg(Len(f) + 1, <<v>> \o f) :
               v \in EarlyVariants, f \in SeqsUpTo(FrameVariants, MaxFrames) }
    \cup UNION { UNION { { StreamHitCfg(n, p, v) :
                             v \in CorruptValues(StreamBytes(OkFrames(n), 0)[p + 1]) } :
                         p \in 0..(n * FRAME_SIZE - 1) } :
                 n \in 1..MaxFrames }
    \cup { DataCfg(d) : d \in SeqsUpTo(DataBytes, MaxData) }
    \cup { LineCfg(l) : l \in SeqsUpTo({0, 1}, MaxBits) }

\* the byte stream of a "bytes" configuration
ByteStream(c) ==
    LET frame == generate_calibration_packet(c.seq)
        hit == IF c.pos >= 0 THEN [frame EXCEPT ![c.pos + 1] = c.val] ELSE frame
        stream == StreamBytes(c.frames, 0)
    IN  IF c.kind = "stream"
        THEN IF c.pos >= 0 THEN [stream EXCEPT ![c.pos + 1] = c.val] ELSE stream
        ELSE c.lead \o Slice(hit, c.drop, Len(hit))

\* args.expected of recv.py
Expected(c) == c.n

(***************************************************************************)
(* One probe process from start-up to exit: the imports at the top of the  *)
(* script, argparse, main.  `inv` is the invocation, `proc` what the       *)
(* process has done.  The same variables hold a direct call of             *)
(* modulate_afsk_ultrasonic (probe = "modulate").                          *)
(***************************************************************************)
Probes == {"sweep", "send", "recv", "analyze", "decide"}
\* the scripts that import numpy at the top: all but decide.py
NumpyProbes == {"sweep", "send", "recv", "analyze"}

\* a WAV file as the readers see it: the RIFF tag, the WAVE tag, the bits per
\* sample of the fmt chunk (0: no fmt chunk) and the data chunk
Wav(riff, wave, fmt_bits, data) ==
    [riff |-> riff, wave |-> wave, fmt_bits |-> fmt_bits, data |-> data]
WavFiles ==
    { Wav(r, w, b, d) : r \in BOOLEAN, w \in BOOLEAN, b \in {0, 8, 16, 24, 32},
                        d \in {"absent", "empty", "present"} }
GoodWav == Wav(TRUE, TRUE, 16, "present")

\* --gap-ms is a float; it is counted in tenths of a millisecond
GAP_SCALE == 10
\* --gap-ms values: none, 7.5 ms (a gap that is not a whole number of samples
\* at 44100 Hz) and the default
GapValues == {0, 75, GAP_MS * GAP_SCALE}

DefaultInv ==
    [probe |-> "idle", numpy |-> TRUE, sounddevice |-> TRUE, argv_ok |-> TRUE,
     check_only |-> FALSE, device_ok |-> TRUE, output_sr |-> 48000,
     duration_pos |-> TRUE, audio_ok |-> TRUE,
     freq0 |-> 18000, freq1 |-> 20000, sample_rate |-> 48000,
     has_output |-> FALSE, num_packets |-> 1, gap_ms |-> GAP_MS * GAP_SCALE,
     has_input |-> FALSE, live |-> FALSE, wav |-> GoodWav,
     group |-> "none", inputs_ok |-> TRUE, data |-> << >>]

CarrierPairs == { <<ULTRASONIC_FREQ0, ULTRASONIC_FREQ1>>, <<AUDIBLE_FREQ0, AUDIBLE_FREQ1>>,
                  <<ULTRASONIC_FREQ1, ULTRASONIC_FREQ0>> }
SendRates == {32000, 40000, 44100, 48000}
Env == { [numpy |-> np, sounddevice |-> sd, argv_ok |-> ok] :
           np \in BOOLEAN, sd \in BOOLEAN, ok \in BOOLEAN }

SweepInvocations ==
    { [DefaultInv EXCEPT !.probe = "sweep", !.numpy = e.numpy,
         !.sounddevice = e.sounddevice, !.argv_ok = e.argv_ok,
         !.check_only = c, !.device_ok = d, !.output_sr = sr,
         !.duration_pos = dp, !.audio_ok = a] :
        e \in Env, c \in BOOLEAN, d \in BOOLEAN, sr \in SampleRates,
        dp \in BOOLEAN, a \in BOOLEAN }
SendInvocations ==
    { [DefaultInv EXCEPT !.probe = "send", !.numpy = e.numpy,
         !.sounddevice = e.sounddevice, !.argv_ok = e.argv_ok,
         !.freq0 = f[1], !.freq1 = f[2], !.sample_rate = sr,
         !.has_output = o, !.num_packets = n, !.gap_ms = g] :
        e \in Env, f \in CarrierPairs, sr \in SendRates, o \in BOOLEAN, n \in 0..2,
        g \in GapValues }
RecvInvocations ==
    { [DefaultInv EXCEPT !.probe = "recv", !.numpy = e.numpy,
         !.sounddevice = e.sounddevice, !.argv_ok = e.argv_ok,
         !.has_input = TRUE, !.wav = w] : e \in Env, w \in WavFiles }
    \cup { [DefaultInv EXCEPT !.probe = "recv", !.numpy = e.numpy,
              !.sounddevice = e.sounddevice, !.argv_ok = e.argv_ok] : e \in Env }
AnalyzeInvocations ==
    { [DefaultInv EXCEPT !.probe = "analyze", !.numpy = e.numpy,
         !.sounddevice = e.sounddevice, !.argv_ok = e.argv_ok,
         !.has_input = TRUE, !.live = l, !.wav = w] :
        e \in Env, l \in BOOLEAN, w \in WavFiles }
    \cup { [DefaultInv EXCEPT !.probe = "analyze", !.numpy = e.numpy,
              !.sounddevice = e.sounddevice, !.argv_ok = e.argv_ok, !.live = l] :
             e \in Env, l \in BOOLEAN }
DecideInvocations ==
    { [DefaultInv EXCEPT !.probe = "decide", !.numpy = e.numpy,
         !.sounddevice = e.sounddevice, !.argv_ok = e.argv_ok,
         !.group = g, !.inputs_ok = ok] :
        e \in Env, g \in {"auto", "direct", "files", "none"}, ok \in BOOLEAN }
ModulateCalls ==
    { [DefaultInv EXCEPT !.probe = "modulate", !.freq0 = f[1], !.freq1 = f[2],
         !.sample_rate = sr, !.data = d] :
        f \in CarrierPairs, sr \in SendRates, d \in SeqsUpTo(DataBytes, 1) }

Invocations ==
    SweepInvocations \cup SendInvocations \cup RecvInvocations
    \cup AnalyzeInvocations \cup DecideInvocations \cup ModulateCalls

\* exit_code -1: the process has not exited.  has: the keys of the JSON
\* object printed on stdout (printed = FALSE: nothing was printed there).
\* samples_made: the length of the PCM buffer built, played: it went to the
\* sound device, wav_written: write_wav ran.
Proc(exit_code, printed, has, success, error, samples_made, played, wav_written) ==
    [exit_code |-> exit_code, printed |-> printed, has |-> has,
     success |-> success, error |-> error, samples_made |-> samples_made,
     played |-> played, wav_written |-> wav_written]
NoProc == Proc(-1, FALSE, {}, FALSE, "none", 0, FALSE, FALSE)

\* main printed a report with success = s (and an error when it failed) and
\* returned: exit code 0
Reported(s, error, samples_made, played, wav_written) ==
    Proc(0, TRUE, IF s THEN {"success"} ELSE {"success", "error"}, s, error,
         samples_made, played, wav_written)

CliIdle ==
    /\ cli_pc = "idle"
    /\ inv = DefaultInv
    /\ proc = NoProc

(***************************************************************************)
(* send.py: modulate_afsk_ultrasonic, the sample loop.  The phase is       *)
(* counted in units of 2*pi/sample_rate, so that phase_inc is the carrier  *)
(* frequency in Hz.  last_phase is the phase of the sample written last    *)
(* and last_inc the increment added after it.                              *)
(***************************************************************************)
Osc(opc, tx_bits, spb, freq0, freq1, i, sidx, phase, count, last_phase, last_inc) ==
    [pc |-> opc, bits |-> tx_bits, samples_per_bit |-> spb,
     freq0 |-> freq0, freq1 |-> freq1, i |-> i, s |-> sidx, phase |-> phase,
     count |-> count, last_phase |-> last_phase, last_inc |-> last_inc]

NoOsc == Osc("idle", << >>, 1, 0, 0, 0, 0, 0, 0, 0, 0)

ModIdle == osc = NoOsc

(***************************************************************************)
(* sweep.py run_sweep and analyze.py analyze_spectrum on one recording.    *)
(* power[k] is the power of FFT bin k as analyze_spectrum has it,          *)
(* (|X_k| / n)^2, counted in units of 1e-10, the floor both programs put   *)
(* under the noise power.  A result holds the bins averaged and the ratio  *)
(* signal_power / max(noise_power, 1e-10) as a fraction in lowest terms:   *)
(* snr_db is 10 * log10 of it, a strictly increasing function.             *)
(***************************************************************************)
NoSnr == [done |-> FALSE, signal_bins |-> {}, noise_bins |-> {}, ratio |-> <<0, 1>>]

Fft(fpc, start_freq, end_freq, power, sweep, analyze) ==
    [pc |-> fpc, start_freq |-> start_freq, end_freq |-> end_freq,
     power |-> power, sweep |-> sweep, analyze |-> analyze]

NoFft == Fft("idle", 0, 0, << >>, NoSnr, NoSnr)

SnrIdle == fft = NoFft

(***************************************************************************)
(* decide.py: step 3 of auto_probe in concurrent runs.  cal_wav is the     *)
(* one path every run computes; `writers` are the runs whose send has      *)
(* written into the file the path names now.                               *)
(***************************************************************************)
Runs == {1, 2}

NoFile == [exists |-> FALSE, writers |-> {}]

\* what a run's recv.py got from read_wav: nothing yet, no file, or the
\* data of the runs in `of`
NotRead == [state |-> "none", of |-> {}]
Missing == [state |-> "missing", of |-> {}]
ReadOf(writers) == [state |-> "read", of |-> writers]

Run(rpc, sample_rate, orphan, sent, read) ==
    [pc |-> rpc, sample_rate |-> sample_rate, orphan |-> orphan,
     sent |-> sent, read |-> read]

RunsIdle ==
    /\ run = [r \in Runs |-> Run("idle", SAMPLE_RATE, FALSE, FALSE, NotRead)]
    /\ cal_wav = NoFile

(***************************************************************************)
(* closedclaw_messenger.py: ClosedClawIPC.  A socket is known by the       *)
(* number of the connect() call that created it, 0 is None.  The receive   *)
(* thread started by that call has the same number; 0 is the GUI thread,   *)
(* -1 nobody.  ipc.conn and ipc.unmarked_by record which connect() set     *)
(* connected to True last and who set it from True to False last;          *)
(* closed_by records who closed an open socket.                            *)
(***************************************************************************)
MaxConns == 2

GUI == 0
NOBODY == -1

Ipc(sock, connected, running, conn, unmarked_by) ==
    [socket |-> sock, connected |-> connected, running |-> running,
     conn |-> conn, unmarked_by |-> unmarked_by]

\* __init__: socket = None, connected = False, running = False
NewIpc == Ipc(0, FALSE, FALSE, 0, NOBODY)

Socket(open, closed_by) == [open |-> open, closed_by |-> closed_by]

\* pc and n: the place in the call and the socket connect() created; op:
\* the call that is running; last: the call that returned last, and how
Gui(gpc, n, op, last) == [pc |-> gpc, n |-> n, op |-> op, last |-> last]

\* sock: the socket the thread is blocked on in recv, 0 outside recv
Thread(tpc, sock) == [pc |-> tpc, sock |-> sock]

IpcIdle ==
    /\ ipc = NewIpc
    /\ socks = << >>
    /\ gui = Gui("off", 0, "none", "none")
    /\ thr = << >>

RestIdle == ModIdle /\ SnrIdle /\ RunsIdle /\ IpcIdle

(***************************************************************************)
(* Link actions                                                            *)
(***************************************************************************)
NoRecvReport ==
    [success |-> FALSE, demodulated_bytes |-> 0, packets_found |-> 0,
     packets_intact |-> 0, packets_corrupted |-> 0, packets_lost |-> 0,
     per |-> 0, quality |-> "none"]

LinkIdle ==
    /\ lpc = "idle"
    /\ cfg = IdleCfg
    /\ samples = << >>
    /\ bits = << >>
    /\ demod_i = 0
    /\ raw_bytes = << >>
    /\ raw_data = << >>
    /\ extract_i = 0
    /\ packets = << >>
    /\ extents = << >>
    /\ recv_report = NoRecvReport

DecideIdle ==
    /\ pc = "idle"
    /\ args = Args(FALSE, {}, 0, 0, 48000)
    /\ steps = << >>
    /\ report = NoReport
    /\ host = [output_sr |-> 48000]
    /\ calls = << >>

LinkInit ==
    /\ lpc = "start"
    /\ cfg \in LinkConfigs
    /\ samples = << >>
    /\ bits = << >>
    /\ demod_i = 0
    /\ raw_bytes = << >>
    /\ raw_data = << >>
    /\ extract_i = 0
    /\ packets = << >>
    /\ extents = << >>
    /\ recv_report = NoRecvReport
    /\ DecideIdle
    /\ CliIdle
    /\ RestIdle

\* modulate_afsk_ultrasonic(generate_calibration_packet(seq)), recorded
SendSingle ==
    /\ lpc = "start"
    /\ cfg.kind = "single"
    /\ LET pcm == modulate_afsk_ultrasonic(generate_calibration_packet(cfg.seq))
       IN  samples' = Slice(pcm, 0, Len(pcm) - cfg.cut)
    /\ lpc' = "slice"
    /\ UNCHANGED <<cfg, bits, demod_i, raw_bytes, raw_data, extract_i, packets, extents,
                   recv_report>>
    /\ UNCHANGED <<decideVars, cliVars, restVars>>

\* send.py main: the batch of cfg.n packets
SendBatch ==
    /\ lpc = "start"
    /\ cfg.kind = "batch"
    /\ samples' = BatchSamples(0, cfg.n)
    /\ lpc' = "slice"
    /\ UNCHANGED <<cfg, bits, demod_i, raw_bytes, raw_data, extract_i, packets, extents,
                   recv_report>>
    /\ UNCHANGED <<decideVars, cliVars, restVars>>

\* modulate_afsk_ultrasonic(data) for arbitrary bytes, recorded
SendData ==
    /\ lpc = "start"
    /\ cfg.kind = "data"
    /\ samples' = modulate_afsk_ultrasonic(cfg.data)
    /\ lpc' = "slice"
    /\ UNCHANGED <<cfg, bits, demod_i, raw_bytes, raw_data, extract_i, packets, extents,
                   recv_report>>
    /\ UNCHANGED <<decideVars, cliVars, restVars>>

\* a recording whose bit windows hold the tones of cfg.line
RecordLine ==
    /\ lpc = "start"
    /\ cfg.kind = "line"
    /\ samples' = [k \in 1..Len(cfg.line) |-> IF cfg.line[k] = 0 THEN "f0" ELSE "f1"]
    /\ lpc' = "slice"
    /\ UNCHANGED <<cfg, bits, demod_i, raw_bytes, raw_data, extract_i, packets, extents,
                   recv_report>>
    /\ UNCHANGED <<decideVars, cliVars, restVars>>

\* a byte stream is handed to extract_packets
LoadBytes ==
    /\ lpc = "start"
    /\ cfg.kind \in {"bytes", "stream"}
    /\ raw_data' = ByteStream(cfg)
    /\ extract_i' = 0
    /\ packets' = << >>
    /\ extents' = << >>
    /\ lpc' = "extract"
    /\ UNCHANGED <<cfg, samples, bits, demod_i, raw_bytes, recv_report>>
    /\ UNCHANGED <<decideVars, cliVars, restVars>>

\* demodulate_afsk on one frame: the bit slicing loop
DemodSlice ==
    /\ lpc = "slice"
    /\ cfg.kind \in {"single", "data", "line"}
    /\ bits' = SliceBits(samples)
    /\ demod_i' = 0
    /\ raw_bytes' = << >>
    /\ lpc' = "uart"
    /\ UNCHANGED <<cfg, samples, raw_data, extract_i, packets, extents, recv_report>>
    /\ UNCHANGED <<decideVars, cliVars, restVars>>

\* recv.py main on a batch: raw_data = demodulate_afsk(samples, ...), then
\* extract_packets(raw_data) is entered
RecvDemodulate ==
    /\ lpc = "slice"
    /\ cfg.kind = "batch"
    /\ raw_data' = demodulate_afsk(samples)
    /\ extract_i' = 0
    /\ packets' = << >>
    /\ extents' = << >>
    /\ lpc' = "extract"
    /\ UNCHANGED <<cfg, samples, bits, demod_i, raw_bytes, recv_report>>
    /\ UNCHANGED <<decideVars, cliVars, restVars>>

\* demodulate_afsk returns bytes(raw_bytes); extract_packets is entered
DemodReturn ==
    /\ raw_data' = raw_bytes
    /\ extract_i' = 0
    /\ packets' = << >>
    /\ extents' = << >>
    /\ lpc' = "extract"
    /\ UNCHANGED <<cfg, samples, bits, demod_i, raw_bytes, recv_report>>
    /\ UNCHANGED <<decideVars, cliVars, restVars>>

\* one iteration of the UART loop that stays in the loop
UartIterate ==
    /\ LET r == UartBody(bits, demod_i, raw_bytes)
       IN  /\ ~r.brk
           /\ demod_i' = r.i
           /\ raw_bytes' = r.raw_bytes
    /\ UNCHANGED <<lpc, cfg, samples, bits, raw_data, extract_i, packets, extents, recv_report>>
    /\ UNCHANGED <<decideVars, cliVars, restVars>>

\* UART loop: bits[i] == 1, an idle bit
UartIdle ==
    /\ lpc = "uart"
    /\ demod_i < Len(bits)
    /\ bits[demod_i + 1] # 0
    /\ UartIterate

\* UART loop: a start bit with a valid stop bit
UartByte ==
    /\ lpc = "uart"
    /\ demod_i < Len(bits)
    /\ bits[demod_i + 1] = 0
    /\ ~(demod_i + 9 >= Len(bits))
    /\ bits[demod_i + 10] = 1
    /\ UartIterate

\* UART loop: a start bit whose stop bit is 0
UartFramingError ==
    /\ lpc = "uart"
    /\ demod_i < Len(bits)
    /\ bits[demod_i + 1] = 0
    /\ ~(demod_i + 9 >= Len(bits))
    /\ bits[demod_i + 10] # 1
    /\ UartIterate

\* UART loop: a start bit with fewer than 10 bits left, break
UartBreak ==
    /\ lpc = "uart"
    /\ demod_i < Len(bits)
    /\ UartBody(bits, demod_i, raw_bytes).brk
    /\ DemodReturn

\* UART loop: the loop condition fails
UartExit ==
    /\ lpc = "uart"
    /\ ~(demod_i < Len(bits))
    /\ DemodReturn

(***************************************************************************)
(* recv.py: extract_packets, one action per way through the loop body      *)
(***************************************************************************)
ExtractFrame == UNCHANGED <<cfg, samples, bits, demod_i, raw_bytes, raw_data, recv_report>>

MagicIdx == Find(raw_data, CALIBRATION_MAGIC, extract_i)
\* the length prefix unpacked little-endian ("<H")
LengthAt_little_endian(magic_idx) ==
    raw_data[magic_idx - 1] + 256 * raw_data[magic_idx]

\* struct.unpack(">H", raw_data[magic_idx - 2 : magic_idx])[0]
LengthAt(magic_idx) == UnpackH(Slice(raw_data, magic_idx - 2, magic_idx))
\* packet_end counted from the end of the magic
PacketEnd_after_magic(magic_idx) == magic_idx + 4 + LengthAt(magic_idx)

\* packet_end = packet_start + 2 + length
PacketEnd(magic_idx) == (magic_idx - 2) + 2 + LengthAt(magic_idx)

InExtractLoop ==
    /\ lpc = "extract"
    /\ extract_i < Len(raw_data) - 2

\* no magic from i on: break
ExtractNoMagic ==
    /\ InExtractLoop
    /\ MagicIdx = -1
    /\ lpc' = "report"
    /\ UNCHANGED <<extract_i, packets, extents>>
    /\ ExtractFrame
    /\ UNCHANGED <<decideVars, cliVars, restVars>>

\* magic_idx < 2 ending the scan with `break`
ExtractEarlyMagic_break ==
    /\ InExtractLoop
    /\ \E magic_idx \in {MagicIdx} :
         /\ magic_idx # -1
         /\ magic_idx < 2
    /\ lpc' = "report"
    /\ UNCHANGED <<extract_i, packets, extents>>
    /\ ExtractFrame
    /\ UNCHANGED <<decideVars, cliVars, restVars>>

\* magic_idx < 2: no room for the length prefix
ExtractEarlyMagic ==
    /\ InExtractLoop
    /\ \E magic_idx \in {MagicIdx} :
         /\ magic_idx # -1
         /\ magic_idx < 2
         /\ extract_i' = magic_idx + 1
    /\ UNCHANGED <<lpc, packets, extents>>
    /\ ExtractFrame
    /\ UNCHANGED <<decideVars, cliVars, restVars>>

\* packet_end > len(raw_data): incomplete packet
ExtractIncomplete ==
    /\ InExtractLoop
    /\ \E magic_idx \in {MagicIdx} :
         /\ magic_idx >= 2
         /\ PacketEnd(magic_idx) > Len(raw_data)
         /\ extract_i' = magic_idx + 1
    /\ UNCHANGED <<lpc, packets, extents>>
    /\ ExtractFrame
    /\ UNCHANGED <<decideVars, cliVars, restVars>>

\* the short-body branch taking `continue` without moving the cursor
ExtractShortBody_no_advance ==
    /\ InExtractLoop
    /\ \E magic_idx \in {MagicIdx} :
         /\ magic_idx >= 2
         /\ ~(PacketEnd(magic_idx) > Len(raw_data))
         /\ LengthAt(magic_idx) < MIN_BODY
    /\ UNCHANGED extract_i
    /\ UNCHANGED <<lpc, packets, extents>>
    /\ ExtractFrame
    /\ UNCHANGED <<decideVars, cliVars, restVars>>

\* len(packet_body) < 56
ExtractShortBody ==
    /\ InExtractLoop
    /\ \E magic_idx \in {MagicIdx} :
         /\ magic_idx >= 2
         /\ ~(PacketEnd(magic_idx) > Len(raw_data))
         /\ LengthAt(magic_idx) < MIN_BODY
         /\ extract_i' = magic_idx + 1
    /\ UNCHANGED <<lpc, packets, extents>>
    /\ ExtractFrame
    /\ UNCHANGED <<decideVars, cliVars, restVars>>

\* a recorded packet followed by i = magic_idx + 1, as in the other branches
ExtractRecord_resume_after_magic ==
    /\ InExtractLoop
    /\ \E magic_idx \in {MagicIdx} :
         /\ magic_idx >= 2
         /\ ~(PacketEnd(magic_idx) > Len(raw_data))
         /\ ~(LengthAt(magic_idx) < MIN_BODY)
         /\ packets' = Append(packets, PacketRecord(raw_data, magic_idx))
         /\ extents' = Append(extents, <<magic_idx - 2, PacketEnd(magic_idx)>>)
         /\ extract_i' = magic_idx + 1
    /\ UNCHANGED lpc
    /\ ExtractFrame
    /\ UNCHANGED <<decideVars, cliVars, restVars>>

\* the packet is parsed, verified and recorded; i = packet_end
ExtractRecord ==
    /\ InExtractLoop
    /\ \E magic_idx \in {MagicIdx} :
         /\ magic_idx >= 2
         /\ ~(PacketEnd(magic_idx) > Len(raw_data))
         /\ ~(LengthAt(magic_idx) < MIN_BODY)
         /\ packets' = Append(packets, PacketRecord(raw_data, magic_idx))
         /\ extents' = Append(extents, <<magic_idx - 2, PacketEnd(magic_idx)>>)
         /\ extract_i' = PacketEnd(magic_idx)
    /\ UNCHANGED lpc
    /\ ExtractFrame
    /\ UNCHANGED <<decideVars, cliVars, restVars>>

\* the loop condition fails: return packets
ExtractExit ==
    /\ lpc = "extract"
    /\ ~(extract_i < Len(raw_data) - 2)
    /\ lpc' = "report"
    /\ UNCHANGED <<extract_i, packets, extents>>
    /\ ExtractFrame
    /\ UNCHANGED <<decideVars, cliVars, restVars>>

(***************************************************************************)
(* recv.py main: counts, PER and quality.  per is counted in 1/10000, the  *)
(* precision round(.., 4) keeps.                                           *)
(***************************************************************************)
PER_SCALE == 10000

\* round(num / den * PER_SCALE) to the nearest integer, ties to even
RoundRatio(num, den) ==
    LET q == (num * PER_SCALE) \div den
        r == (num * PER_SCALE) % den
    IN  IF 2 * r > den \/ (2 * r = den /\ q % 2 = 1) THEN q + 1 ELSE q

Max(a, b) == IF a >= b THEN a ELSE b

\* sum(1 for p in packets if p["intact"])
CountIntact(ps) == Cardinality({k \in 1..Len(ps) : ps[k].intact})
\* sum(1 for p in packets if not p["intact"])
CountCorrupted(ps) == Cardinality({k \in 1..Len(ps) : ~ps[k].intact})

Quality(per) ==
    IF per = 0 THEN "excellent"
    ELSE IF 10 * per < PER_SCALE THEN "good"
    ELSE IF 10 * per < 3 * PER_SCALE THEN "marginal"
    ELSE "poor"

\* packets_lost computed as expected - found, without max(0, ...)
RecvReport_lost_unclamped ==
    /\ lpc = "report"
    /\ LET total_expected == Expected(cfg)
           lost == total_expected - Len(packets)
           corrupted == CountCorrupted(packets)
           total_errors == lost + corrupted
           per == RoundRatio(total_errors, Max(total_expected, 1))
       IN  recv_report' =
             [success |-> TRUE,
              demodulated_bytes |-> Len(raw_data),
              packets_found |-> Len(packets),
              packets_intact |-> CountIntact(packets),
              packets_corrupted |-> CountCorrupted(packets),
              packets_lost |-> lost,
              per |-> per,
              quality |-> Quality(per)]
    /\ lpc' = "done"
    /\ UNCHANGED <<cfg, samples, bits, demod_i, raw_bytes, raw_data, extract_i, packets, extents>>
    /\ UNCHANGED <<decideVars, cliVars, restVars>>

RecvReport ==
    /\ lpc = "report"
    /\ LET total_expected == Expected(cfg)
           lost == Max(0, total_expected - Len(packets))
           corrupted == CountCorrupted(packets)
           total_errors == lost + corrupted
           per == RoundRatio(total_errors, Max(total_expected, 1))
       IN  recv_report' =
             [success |-> TRUE,
              demodulated_bytes |-> Len(raw_data),
              packets_found |-> Len(packets),
              packets_intact |-> CountIntact(packets),
              packets_corrupted |-> CountCorrupted(packets),
              packets_lost |-> lost,
              per |-> per,
              quality |-> Quality(per)]
    /\ lpc' = "done"
    /\ UNCHANGED <<cfg, samples, bits, demod_i, raw_bytes, raw_data, extract_i, packets, extents>>
    /\ UNCHANGED <<decideVars, cliVars, restVars>>

LinkNext ==
    \/ SendSingle
    \/ SendBatch
    \/ SendData
    \/ RecordLine
    \/ LoadBytes
    \/ DemodSlice
    \/ RecvDemodulate
    \/ UartIdle
    \/ UartByte
    \/ UartFramingError
    \/ UartBreak
    \/ UartExit
    \/ ExtractNoMagic
    \/ ExtractEarlyMagic
    \/ ExtractIncomplete
    \/ ExtractShortBody
    \/ ExtractRecord
    \/ ExtractExit
    \/ RecvReport

(***************************************************************************)
(* The probe process: its steps                                            *)
(***************************************************************************)
CliInit ==
    /\ cli_pc = "start"
    /\ inv \in Invocations
    /\ proc = NoProc
    /\ DecideIdle
    /\ LinkIdle
    /\ RestIdle

CliFrame == UNCHANGED <<inv, decideVars, linkVars, restVars>>

\* except ImportError around `import numpy`: print {"error": ...}; sys.exit(1)
ImportNumpyMissing ==
    /\ cli_pc = "start"
    /\ inv.probe \in NumpyProbes
    /\ ~inv.numpy
    /\ proc' = Proc(1, TRUE, {"error"}, FALSE, "numpy", 0, FALSE, FALSE)
    /\ cli_pc' = "exited"
    /\ CliFrame

\* sweep.py: except ImportError around `import sounddevice`: sys.exit(1)
ImportSounddeviceMissing ==
    /\ cli_pc = "start"
    /\ inv.probe = "sweep"
    /\ inv.numpy
    /\ ~inv.sounddevice
    /\ proc' = Proc(1, TRUE, {"error"}, FALSE, "sounddevice", 0, FALSE, FALSE)
    /\ cli_pc' = "exited"
    /\ CliFrame

\* the imports succeed (send, recv, analyze set sd = None without the module)
ImportsDone ==
    /\ cli_pc = "start"
    /\ inv.probe \in Probes
    /\ inv.probe \in NumpyProbes => inv.numpy
    /\ inv.probe = "sweep" => inv.sounddevice
    /\ cli_pc' = "main"
    /\ UNCHANGED proc
    /\ CliFrame

\* parser.parse_args() rejects the command line: usage on stderr, exit 2
ArgparseError ==
    /\ cli_pc = "main"
    /\ ~inv.argv_ok
    /\ proc' = Proc(2, FALSE, {}, FALSE, "usage", 0, FALSE, FALSE)
    /\ cli_pc' = "exited"
    /\ CliFrame

InMain(probe) ==
    /\ cli_pc = "main"
    /\ inv.argv_ok
    /\ inv.probe = probe

\* sweep.py main, --check-only: the report has probe, mode, devices, timestamp
SweepCheckOnly ==
    /\ InMain("sweep")
    /\ inv.check_only
    /\ proc' = Proc(0, TRUE, {"devices"}, FALSE, "none", 0, FALSE, FALSE)
    /\ cli_pc' = "exited"
    /\ CliFrame

\* run_sweep calls generate_sweep outside its try block
SweepReaches ==
    /\ inv.device_ok
    /\ ~(inv.output_sr < SWEEP_END * 2)

\* sweep.py main: run_sweep raises in generate_sweep (--duration 0 divides
\* by zero, a negative one is refused by np.linspace): traceback, exit 1
SweepCrash ==
    /\ InMain("sweep")
    /\ ~inv.check_only
    /\ SweepReaches
    /\ ~inv.duration_pos
    /\ proc' = Proc(1, FALSE, {}, FALSE, "traceback", 0, FALSE, FALSE)
    /\ cli_pc' = "exited"
    /\ CliFrame

\* sweep.py main: run_sweep returns a result, main prints it
SweepRun ==
    /\ InMain("sweep")
    /\ ~inv.check_only
    /\ ~(SweepReaches /\ ~inv.duration_pos)
    /\ proc' =
         IF ~inv.device_ok THEN Reported(FALSE, "device", 0, FALSE, FALSE)
         ELSE IF inv.output_sr < SWEEP_END * 2
         THEN Reported(FALSE, "nyquist", 0, FALSE, FALSE)
         ELSE IF ~inv.audio_ok
         THEN Reported(FALSE, "portaudio", 2 * inv.sample_rate, FALSE, FALSE)
         ELSE Reported(TRUE, "none", 2 * inv.sample_rate, TRUE, FALSE)
    /\ cli_pc' = "exited"
    /\ CliFrame

MaxFreq(f0, f1) == IF f0 >= f1 THEN f0 ELSE f1

\* len(all_samples) after the loop of send.py main
SendSampleCount(num_packets, sample_rate, gap_ms) ==
    LET spb == sample_rate \div BAUD
        gap == (sample_rate * gap_ms) \div (1000 * GAP_SCALE)
        frame_bits == Len(ModulatorBits(generate_calibration_packet(0)))
    IN  num_packets * (frame_bits * spb + gap)

\* send.py main without its Nyquist check
SendMain_no_nyquist ==
    /\ InMain("send")
    /\ proc' =
         LET made == SendSampleCount(inv.num_packets, inv.sample_rate, inv.gap_ms)
         IN  IF inv.num_packets = 0
             THEN Reported(FALSE, "exception", made, FALSE, FALSE)
             ELSE IF inv.has_output
             THEN Reported(TRUE, "none", made, FALSE, TRUE)
             ELSE IF inv.sounddevice
             THEN Reported(TRUE, "none", made, TRUE, FALSE)
             ELSE Reported(FALSE, "no_sounddevice", made, FALSE, FALSE)
    /\ cli_pc' = "exited"
    /\ CliFrame

\* send.py main
SendMain ==
    /\ InMain("send")
    /\ proc' =
         LET made == SendSampleCount(inv.num_packets, inv.sample_rate, inv.gap_ms)
         IN  IF inv.sample_rate < MaxFreq(inv.freq0, inv.freq1) * 2
             THEN Reported(FALSE, "nyquist", 0, FALSE, FALSE)
             ELSE IF inv.num_packets = 0
             THEN Reported(FALSE, "exception", made, FALSE, FALSE)
             ELSE IF inv.has_output
             THEN Reported(TRUE, "none", made, FALSE, TRUE)
             ELSE IF inv.sounddevice
             THEN Reported(TRUE, "none", made, TRUE, FALSE)
             ELSE Reported(FALSE, "no_sounddevice", made, FALSE, FALSE)
    /\ cli_pc' = "exited"
    /\ CliFrame

\* a direct call of modulate_afsk_ultrasonic(data, freq0, freq1, sample_rate,
\* baud_rate): it returns len(bits) * int(sample_rate / baud_rate) samples
ModulateCall ==
    /\ cli_pc = "start"
    /\ inv.probe = "modulate"
    /\ proc' = Proc(-1, FALSE, {}, FALSE, "none",
                    Len(modulate_afsk_ultrasonic(inv.data)) * (inv.sample_rate \div BAUD),
                    FALSE, FALSE)
    /\ cli_pc' = "returned"
    /\ CliFrame

\* the outcome of a WAV reader: it raised ValueError(error), or it returned
\* samples (nonempty: at least one)
WavRaised(error) == [raised |-> TRUE, error |-> error, nonempty |-> FALSE]
WavRead(nonempty) == [raised |-> FALSE, error |-> "none", nonempty |-> nonempty]

\* recv.py read_wav
recv_read_wav(w) ==
    IF ~w.riff THEN WavRaised("not_wav")
    ELSE LET bits_per_sample == IF w.fmt_bits = 0 THEN 16 ELSE w.fmt_bits
         IN  IF bits_per_sample = 16 THEN WavRead(w.data = "present")
             ELSE WavRaised("bits")

\* analyze.py read_wav
analyze_read_wav(w) ==
    IF ~w.riff THEN WavRaised("not_wav")
    ELSE IF ~w.wave THEN WavRaised("not_wav")
    ELSE LET bits_per_sample == IF w.fmt_bits = 0 THEN 16 ELSE w.fmt_bits
         IN  IF w.data # "present" THEN WavRaised("no_data")
             ELSE IF bits_per_sample \in {16, 32} THEN WavRead(TRUE)
             ELSE WavRaised("bits")

\* recv.py main
RecvMain ==
    /\ InMain("recv")
    /\ proc' =
         IF inv.has_input
         THEN LET r == recv_read_wav(inv.wav)
              IN  IF r.raised THEN Reported(FALSE, r.error, 0, FALSE, FALSE)
                  ELSE Reported(TRUE, "none", 0, FALSE, FALSE)
         ELSE IF inv.sounddevice THEN Reported(TRUE, "none", 0, FALSE, FALSE)
         ELSE Reported(FALSE, "no_sounddevice", 0, FALSE, FALSE)
    /\ cli_pc' = "exited"
    /\ CliFrame

\* analyze.py main: every branch prints the report and returns
\* analyze.py main ending a run without --input and --live the way argparse
\* ends a bad command line: usage on stderr, exit 2
AnalyzeMain_usage_exit ==
    /\ InMain("analyze")
    /\ proc' =
         IF inv.has_input
         THEN LET r == analyze_read_wav(inv.wav)
              IN  IF r.raised THEN Reported(FALSE, r.error, 0, FALSE, FALSE)
                  ELSE Reported(TRUE, "none", 0, FALSE, FALSE)
         ELSE IF inv.live
         THEN IF inv.sounddevice THEN Reported(TRUE, "none", 0, FALSE, FALSE)
              ELSE Reported(FALSE, "no_sounddevice", 0, FALSE, FALSE)
         ELSE Proc(2, FALSE, {}, FALSE, "usage", 0, FALSE, FALSE)
    /\ cli_pc' = "exited"
    /\ CliFrame

AnalyzeMain ==
    /\ InMain("analyze")
    /\ proc' =
         IF inv.has_input
         THEN LET r == analyze_read_wav(inv.wav)
              IN  IF r.raised THEN Reported(FALSE, r.error, 0, FALSE, FALSE)
                  ELSE Reported(TRUE, "none", 0, FALSE, FALSE)
         ELSE IF inv.live
         THEN IF inv.sounddevice THEN Reported(TRUE, "none", 0, FALSE, FALSE)
              ELSE Reported(FALSE, "no_sounddevice", 0, FALSE, FALSE)
         ELSE Reported(FALSE, "usage", 0, FALSE, FALSE)
    /\ cli_pc' = "exited"
    /\ CliFrame

\* decide.py main: the branch for the option group given; inputs_ok says
\* whether auto_probe returned success / the result files loaded
DecideMain ==
    /\ InMain("decide")
    /\ proc' =
         IF inv.group = "auto" THEN Reported(inv.inputs_ok, "auto", 0, FALSE, FALSE)
         ELSE IF inv.group = "direct" THEN Reported(TRUE, "none", 0, FALSE, FALSE)
         ELSE IF inv.group = "files"
         THEN IF inv.inputs_ok THEN Reported(TRUE, "none", 0, FALSE, FALSE)
              ELSE Reported(FALSE, "exception", 0, FALSE, FALSE)
         ELSE Reported(FALSE, "usage", 0, FALSE, FALSE)
    /\ cli_pc' = "exited"
    /\ CliFrame

CliNext ==
    \/ ImportNumpyMissing
    \/ ImportSounddeviceMissing
    \/ ImportsDone
    \/ ArgparseError
    \/ SweepCheckOnly
    \/ SweepCrash
    \/ SweepRun
    \/ SendMain
    \/ ModulateCall
    \/ RecvMain
    \/ AnalyzeMain
    \/ DecideMain

(***************************************************************************)
(* send.py: modulate_afsk_ultrasonic, one action per pass of the inner     *)
(* loop `for s in range(samples_per_bit)`                                  *)
(***************************************************************************)
\* baud rates that give 3 and 2 samples per bit at 48000 Hz
ModBauds == {16000, 24000}

\* the state after `phase = 0.0`, before the first bit
ModInit ==
    /\ osc \in { Osc("loop", ModulatorBits(d), SAMPLE_RATE \div b, f[1], f[2],
                      0, 0, 0, 0, 0, 0) :
                   d \in SeqsUpTo(DataBytes, 1), b \in ModBauds, f \in CarrierPairs }
    /\ DecideIdle
    /\ LinkIdle
    /\ CliIdle
    /\ SnrIdle
    /\ RunsIdle
    /\ IpcIdle

ModFrame == UNCHANGED <<decideVars, linkVars, cliVars, snrVars, runVars, ipcVars>>

\* freq = freq0 if bit == 0 else freq1; phase_inc = 2 * pi * freq / sample_rate
PhaseInc(o) == IF o.bits[o.i + 1] = 0 THEN o.freq0 ELSE o.freq1

\* the oscillator restarted at phase 0 at the first sample of every bit
WriteSample_phase_reset(next_i, next_s) ==
    LET used == IF osc.s = 0 THEN 0 ELSE osc.phase
    IN  osc' = [osc EXCEPT !.phase = used + PhaseInc(osc),
                           !.last_phase = used,
                           !.last_inc = PhaseInc(osc),
                           !.count = @ + 1,
                           !.i = next_i, !.s = next_s]

\* samples[start_idx + s] = amplitude * sin(phase); phase += phase_inc
WriteSample(next_i, next_s) ==
    osc' = [osc EXCEPT !.phase = @ + PhaseInc(osc),
                       !.last_phase = osc.phase,
                       !.last_inc = PhaseInc(osc),
                       !.count = @ + 1,
                       !.i = next_i, !.s = next_s]

\* a sample that is not the last of its bit
EmitSample ==
    /\ osc.pc = "loop"
    /\ osc.i < Len(osc.bits)
    /\ osc.s + 1 < osc.samples_per_bit
    /\ WriteSample(osc.i, osc.s + 1)
    /\ ModFrame

\* the last sample of a bit: the outer loop moves to the next bit
EmitLastSample ==
    /\ osc.pc = "loop"
    /\ osc.i < Len(osc.bits)
    /\ osc.s + 1 = osc.samples_per_bit
    /\ WriteSample(osc.i + 1, 0)
    /\ ModFrame

\* the outer loop is exhausted: return samples
ModReturn ==
    /\ osc.pc = "loop"
    /\ osc.i = Len(osc.bits)
    /\ osc' = [osc EXCEPT !.pc = "done"]
    /\ ModFrame

ModNext ==
    \/ EmitSample
    \/ EmitLastSample
    \/ ModReturn

(***************************************************************************)
(* sweep.py run_sweep (band power and SNR) and analyze.py analyze_spectrum *)
(***************************************************************************)
\* len(recording): 0.01 s at 48000 Hz, so that the bins lie 100 Hz apart
FFT_N == 480

\* np.fft.rfftfreq(n, 1.0 / sample_rate): bin k is at k * sample_rate / n
FftBins == 0..(FFT_N \div 2)

FftFreq(k) == (k * SAMPLE_RATE) \div FFT_N

\* the bins that carry power in the recordings drawn: 100, 200, 13600,
\* 14400, 17000 and 22000 Hz; every other bin has power 0
ProbeBins == {1, 2, 136, 144, 170, 220}

PowerValues == {0, 1, 2}

\* --start of the sweep; --end keeps its default
SweepStarts == {17000, 18000}

PowerAt(power, k) == IF k \in DOMAIN power THEN power[k] ELSE 0

RECURSIVE SumPower(_, _)
SumPower(power, bins) ==
    IF bins = {} THEN 0
    ELSE LET k == CHOOSE b \in bins : TRUE
         IN  PowerAt(power, k) + SumPower(power, bins \ {k})

RECURSIVE Gcd(_, _)
Gcd(a, b) == IF b = 0 THEN a ELSE Gcd(b, a % b)

\* a fraction in lowest terms
Fraction(num, den) == LET g == Gcd(num, den) IN <<num \div g, den \div g>>

\* signal_power = mean(fft_power[signal_mask]) if any(signal_mask) else 0
\* noise_power = mean(fft_power[noise_mask]) if any(noise_mask) else 1e-10
\* signal_power / max(noise_power, 1e-10), with scale the factor by which
\* fft_power exceeds (|X| / n)^2
PowerRatio(power, scale, signal_bins, noise_bins) ==
    LET signal_sum == scale * SumPower(power, signal_bins \cap ProbeBins)
        signal_cnt == Cardinality(signal_bins)
        noise_sum  == scale * SumPower(power, noise_bins \cap ProbeBins)
        noise_cnt  == Cardinality(noise_bins)
    IN  IF signal_cnt = 0 THEN <<0, 1>>
        ELSE IF noise_cnt = 0 THEN Fraction(signal_sum, signal_cnt)
        ELSE Fraction(signal_sum * noise_cnt, signal_cnt * Max(noise_sum, noise_cnt))

\* signal_mask = (fft_freqs >= band_start) & (fft_freqs <= band_end)
SignalMask(band_start, band_end) ==
    { k \in FftBins : FftFreq(k) >= band_start /\ FftFreq(k) <= band_end }

\* sweep.py: noise_mask = (fft_freqs > 100) & (fft_freqs < start_freq * 0.8)
SweepNoiseMask(start_freq) ==
    { k \in FftBins : FftFreq(k) > 100 /\ 5 * FftFreq(k) < 4 * start_freq }

\* analyze.py: noise_mask = (fft_freqs >= noise_band_start) & (fft_freqs <= noise_band_end)
\* with noise_band_end = 0.8 * band_start
AnalyzeNoiseMask(noise_band_start, band_start) ==
    { k \in FftBins : FftFreq(k) >= noise_band_start /\ 5 * FftFreq(k) <= 4 * band_start }

SnrInit ==
    /\ fft \in { Fft("recorded", st, SWEEP_END, power, NoSnr, NoSnr) :
                   st \in SweepStarts, power \in [ProbeBins -> PowerValues] }
    /\ DecideIdle
    /\ LinkIdle
    /\ CliIdle
    /\ ModIdle
    /\ RunsIdle
    /\ IpcIdle

SnrFrame == UNCHANGED <<decideVars, linkVars, cliVars, modVars, runVars, ipcVars>>

\* sweep.py:123-138: fft_power = np.abs(fft_data) ** 2, not divided by n
SweepBandPower ==
    /\ fft.pc = "recorded"
    /\ ~fft.sweep.done
    /\ \E sb \in {SignalMask(fft.start_freq, fft.end_freq)},
          nb \in {SweepNoiseMask(fft.start_freq)} :
          fft' = [fft EXCEPT !.sweep =
                     [done |-> TRUE, signal_bins |-> sb, noise_bins |-> nb,
                      ratio |-> PowerRatio(fft.power, FFT_N * FFT_N, sb, nb)]]
    /\ SnrFrame

\* analyze.py:103-117 called with band_start, band_end, 100, 0.8 * band_start
AnalyzeSpectrum ==
    /\ fft.pc = "recorded"
    /\ ~fft.analyze.done
    /\ \E sb \in {SignalMask(fft.start_freq, fft.end_freq)},
          nb \in {AnalyzeNoiseMask(100, fft.start_freq)} :
          fft' = [fft EXCEPT !.analyze =
                     [done |-> TRUE, signal_bins |-> sb, noise_bins |-> nb,
                      ratio |-> PowerRatio(fft.power, 1, sb, nb)]]
    /\ SnrFrame

SnrNext ==
    \/ SweepBandPower
    \/ AnalyzeSpectrum

(***************************************************************************)
(* decide.py: auto_probe from step 3 on, in two processes on one host.     *)
(* A step of a run is one system call on the calibration file or one       *)
(* return.                                                                 *)
(***************************************************************************)
\* each run has passed steps 1 and 2 and is about to call send.py
RunsInit ==
    /\ run \in [Runs -> { Run("send", sr, FALSE, FALSE, NotRead) : sr \in SampleRates }]
    /\ cal_wav = NoFile
    /\ DecideIdle
    /\ LinkIdle
    /\ CliIdle
    /\ ModIdle
    /\ SnrIdle
    /\ IpcIdle

RunsFrame == UNCHANGED <<decideVars, linkVars, cliVars, modVars, snrVars, ipcVars>>

\* send.py write_wav: open(path, "wb") creates the file or empties the one
\* that is there
SendOpen(r) ==
    /\ run[r].pc = "send"
    /\ run' = [run EXCEPT ![r].pc = "writing", ![r].orphan = FALSE]
    /\ cal_wav' = [exists |-> TRUE, writers |-> {}]
    /\ RunsFrame

\* send.py write_wav: the data is written and the file closed; send.py
\* reports success.  A file unlinked since it was opened takes the data
\* with it.
SendClose(r) ==
    /\ run[r].pc = "writing"
    /\ run' = [run EXCEPT ![r].pc = "recv", ![r].sent = TRUE]
    /\ cal_wav' = IF run[r].orphan THEN cal_wav
                  ELSE [cal_wav EXCEPT !.writers = @ \cup {r}]
    /\ RunsFrame

\* send.py fails before it opens the file: auto_probe returns the fallback
SendFails(r) ==
    /\ run[r].pc = "send"
    /\ run' = [run EXCEPT ![r].pc = "done"]
    /\ UNCHANGED cal_wav
    /\ RunsFrame

\* recv.py --input cal_wav: read_wav opens and reads the file
RecvReads(r) ==
    /\ run[r].pc = "recv"
    /\ run' = [run EXCEPT ![r].pc = "cleanup",
                          ![r].read = IF cal_wav.exists THEN ReadOf(cal_wav.writers)
                                      ELSE Missing]
    /\ UNCHANGED cal_wav
    /\ RunsFrame

\* try: os.unlink(cal_wav) except OSError: pass; then the run returns
Cleanup(r) ==
    /\ run[r].pc = "cleanup"
    /\ run' = [q \in Runs |->
                 IF q = r THEN [run[q] EXCEPT !.pc = "done"]
                 ELSE IF run[q].pc = "writing" /\ cal_wav.exists
                      THEN [run[q] EXCEPT !.orphan = TRUE]
                      ELSE run[q]]
    /\ cal_wav' = NoFile
    /\ RunsFrame

RunsNext ==
    \E r \in Runs :
        \/ SendOpen(r)
        \/ SendClose(r)
        \/ SendFails(r)
        \/ RecvReads(r)
        \/ Cleanup(r)

(***************************************************************************)
(* closedclaw_messenger.py: ClosedClawIPC under the GUI thread and the     *)
(* receive threads.  No lock guards the object: a step is one read or one  *)
(* write of an attribute, or one socket call.                              *)
(***************************************************************************)
IpcInit ==
    /\ ipc = NewIpc
    /\ socks = << >>
    /\ gui = Gui("idle", 0, "none", "none")
    /\ thr = << >>
    /\ DecideIdle
    /\ LinkIdle
    /\ CliIdle
    /\ ModIdle
    /\ SnrIdle
    /\ RunsIdle

IpcFrame == UNCHANGED <<decideVars, linkVars, cliVars, modVars, snrVars, runVars>>

\* the steps of disconnect(): running = False; connected = False;
\* if self.socket; self.socket.close(); self.socket = None
DisconnectSteps == {"d1", "d2", "d3", "d4", "d5"}

\* the step after a step of disconnect()
AfterStep(step) ==
    CASE step = "d1" -> "d2"
      [] step = "d2" -> "d3"
      [] step = "d3" -> IF ipc.socket # 0 THEN "d4" ELSE "ret"
      [] step = "d4" -> "d5"
      [] step = "d5" -> "ret"

\* socket.close() by who: closing a closed socket changes nothing
Close(sock, who) ==
    IF socks[sock].open THEN [socks EXCEPT ![sock] = Socket(FALSE, who)] ELSE socks

\* one step of disconnect() run by who; the AttributeError of
\* self.socket.close() on None is swallowed by the bare except
disconnect(step, who) ==
    /\ ipc' = CASE step = "d1" -> [ipc EXCEPT !.running = FALSE]
                [] step = "d2" -> [ipc EXCEPT !.connected = FALSE,
                                              !.unmarked_by = IF ipc.connected THEN who ELSE @]
                [] step = "d5" -> [ipc EXCEPT !.socket = 0]
                [] OTHER -> ipc
    /\ socks' = IF step = "d4" /\ ipc.socket # 0 THEN Close(ipc.socket, who) ELSE socks

\* connect(): self.socket = socket.socket(AF_UNIX, SOCK_STREAM)
ConnectCreate ==
    /\ gui.pc = "idle"
    /\ Len(socks) < MaxConns
    /\ socks' = Append(socks, Socket(TRUE, NOBODY))
    /\ thr' = Append(thr, Thread("unborn", 0))
    /\ ipc' = [ipc EXCEPT !.socket = Len(socks) + 1]
    /\ gui' = [gui EXCEPT !.pc = "c2", !.n = Len(socks) + 1, !.op = "connect"]
    /\ IpcFrame

\* self.socket.connect(self.socket_path) succeeds
ConnectOk ==
    /\ gui.pc = "c2"
    /\ ipc.socket # 0
    /\ socks[ipc.socket].open
    /\ gui' = [gui EXCEPT !.pc = "c3"]
    /\ UNCHANGED <<ipc, socks, thr>>
    /\ IpcFrame

\* self.socket.connect raises: no gateway, self.socket set to None or
\* closed by a receive thread meanwhile; connect() returns False
ConnectRaises ==
    /\ gui.pc = "c2"
    /\ gui' = [gui EXCEPT !.pc = "idle", !.op = "none", !.last = "connect_false"]
    /\ UNCHANGED <<ipc, socks, thr>>
    /\ IpcFrame

\* self.connected = True
ConnectMark ==
    /\ gui.pc = "c3"
    /\ ipc' = [ipc EXCEPT !.connected = TRUE, !.conn = gui.n]
    /\ gui' = [gui EXCEPT !.pc = "c4"]
    /\ UNCHANGED <<socks, thr>>
    /\ IpcFrame

\* self.running = True
ConnectRun ==
    /\ gui.pc = "c4"
    /\ ipc' = [ipc EXCEPT !.running = TRUE]
    /\ gui' = [gui EXCEPT !.pc = "c5"]
    /\ UNCHANGED <<socks, thr>>
    /\ IpcFrame

\* self.receive_thread.start(); connect() returns True
ConnectStartThread ==
    /\ gui.pc = "c5"
    /\ thr' = [thr EXCEPT ![gui.n] = Thread("loop", 0)]
    /\ gui' = [gui EXCEPT !.pc = "idle", !.op = "none", !.last = "connect_true"]
    /\ UNCHANGED <<ipc, socks>>
    /\ IpcFrame

\* the GUI thread calls disconnect(): _on_reconnect_clicked, _on_close
GuiDisconnect ==
    /\ gui.pc = "idle"
    /\ gui' = [gui EXCEPT !.pc = "d1", !.op = "disconnect"]
    /\ UNCHANGED <<ipc, socks, thr>>
    /\ IpcFrame

\* a step of disconnect() on the GUI thread
GuiDisconnectStep ==
    /\ gui.pc \in DisconnectSteps
    /\ disconnect(gui.pc, GUI)
    /\ gui' = IF AfterStep(gui.pc) # "ret" THEN [gui EXCEPT !.pc = AfterStep(gui.pc)]
              ELSE [gui EXCEPT !.pc = "idle", !.op = "none",
                               !.last = IF gui.op = "send" THEN "send_false"
                                        ELSE "disconnect"]
    /\ UNCHANGED thr
    /\ IpcFrame

\* send(): if not self.connected or not self.socket: return False, which
\* changes nothing; otherwise on to sendall
SendCheck ==
    /\ gui.pc = "idle"
    /\ ipc.connected /\ ipc.socket # 0
    /\ gui' = [gui EXCEPT !.pc = "s2", !.op = "send"]
    /\ UNCHANGED <<ipc, socks, thr>>
    /\ IpcFrame

\* self.socket.sendall(...) returns
SendOk ==
    /\ gui.pc = "s2"
    /\ ipc.socket # 0
    /\ socks[ipc.socket].open
    /\ gui' = [gui EXCEPT !.pc = "idle", !.op = "none", !.last = "send_true"]
    /\ UNCHANGED <<ipc, socks, thr>>
    /\ IpcFrame

\* self.socket.sendall raises (peer gone, socket closed or None): send()
\* calls disconnect()
SendRaises ==
    /\ gui.pc = "s2"
    /\ gui' = [gui EXCEPT !.pc = "d1"]
    /\ UNCHANGED <<ipc, socks, thr>>
    /\ IpcFrame

\* _receive_loop: while self.running and self.socket
LoopTest(t) ==
    /\ t \in DOMAIN thr
    /\ thr[t].pc = "loop"
    /\ thr' = [thr EXCEPT ![t].pc = IF ipc.running /\ ipc.socket # 0 THEN "call" ELSE "exit"]
    /\ UNCHANGED <<ipc, socks, gui>>
    /\ IpcFrame

\* data = self.socket.recv(4096): the thread blocks on the socket that
\* self.socket names now; on None the AttributeError goes to the handler
RecvBlock(t) ==
    /\ t \in DOMAIN thr
    /\ thr[t].pc = "call"
    /\ thr' = [thr EXCEPT ![t] = IF ipc.socket # 0 THEN Thread("recv", ipc.socket)
                                 ELSE Thread("except", 0)]
    /\ UNCHANGED <<ipc, socks, gui>>
    /\ IpcFrame

\* recv returns data: the lines are handed on and the loop goes round
RecvData(t) ==
    /\ t \in DOMAIN thr
    /\ thr[t].pc = "recv"
    /\ socks[thr[t].sock].open
    /\ thr' = [thr EXCEPT ![t] = Thread("loop", 0)]
    /\ UNCHANGED <<ipc, socks, gui>>
    /\ IpcFrame

\* recv returns b"": the peer closed; self.disconnect() and break
RecvEof(t) ==
    /\ t \in DOMAIN thr
    /\ thr[t].pc = "recv"
    /\ socks[thr[t].sock].open
    /\ thr' = [thr EXCEPT ![t] = Thread("d1", 0)]
    /\ UNCHANGED <<ipc, socks, gui>>
    /\ IpcFrame

\* recv raises: the socket was closed under the thread, or the connection
\* was reset
RecvRaises(t) ==
    /\ t \in DOMAIN thr
    /\ thr[t].pc = "recv"
    /\ thr' = [thr EXCEPT ![t] = Thread("except", 0)]
    /\ UNCHANGED <<ipc, socks, gui>>
    /\ IpcFrame

\* except Exception: if self.running: self.disconnect(); break
RecvHandler(t) ==
    /\ t \in DOMAIN thr
    /\ thr[t].pc = "except"
    /\ thr' = [thr EXCEPT ![t].pc = IF ipc.running THEN "d1" ELSE "exit"]
    /\ UNCHANGED <<ipc, socks, gui>>
    /\ IpcFrame

\* a step of disconnect() on a receive thread; the thread ends after it
ThreadDisconnectStep(t) ==
    /\ t \in DOMAIN thr
    /\ thr[t].pc \in DisconnectSteps
    /\ disconnect(thr[t].pc, t)
    /\ thr' = [thr EXCEPT ![t].pc = IF AfterStep(thr[t].pc) = "ret" THEN "exit"
                                    ELSE AfterStep(thr[t].pc)]
    /\ UNCHANGED gui
    /\ IpcFrame

IpcNext ==
    \/ ConnectCreate
    \/ ConnectOk
    \/ ConnectRaises
    \/ ConnectMark
    \/ ConnectRun
    \/ ConnectStartThread
    \/ GuiDisconnect
    \/ GuiDisconnectStep
    \/ SendCheck
    \/ SendOk
    \/ SendRaises
    \/ \E t \in 1..MaxConns :
          \/ LoopTest(t)
          \/ RecvBlock(t)
          \/ RecvData(t)
          \/ RecvEof(t)
          \/ RecvRaises(t)
          \/ RecvHandler(t)
          \/ ThreadDisconnectStep(t)

(***************************************************************************)
(* Specifications                                                          *)
(***************************************************************************)
\* the decision engine and the automatic probe sequence
Init == DecideInit /\ LinkIdle /\ CliIdle /\ RestIdle
Next == DecideNext
Spec == Init /\ [][Next]_vars

\* the calibration link
SpecLink == LinkInit /\ [][LinkNext]_vars

\* demodulate_afsk's UART loop and extract_packets' loop on their inputs: the
\* bits of a recording, or the bytes of a stream.  Both run in one Python
\* thread that nothing blocks, so a step that can be taken is taken.
LoopKinds == {"bytes", "stream", "data", "line"}

\* of the streams with a replaced byte, those where it lies in a length
\* prefix or a magic: the bytes that steer extract_packets' loop
LoopsInit ==
    /\ LinkInit
    /\ cfg.kind \in LoopKinds
    /\ (cfg.kind = "stream" /\ cfg.pos >= 0)
           => cfg.pos % FRAME_SIZE < 2 + Len(CALIBRATION_MAGIC)

LoopsNext ==
    \/ SendData
    \/ RecordLine
    \/ LoadBytes
    \/ DemodSlice
    \/ UartIdle
    \/ UartByte
    \/ UartFramingError
    \/ UartBreak
    \/ UartExit
    \/ ExtractNoMagic
    \/ ExtractEarlyMagic
    \/ ExtractIncomplete
    \/ ExtractShortBody
    \/ ExtractRecord
    \/ ExtractExit
    \/ RecvReport

SpecLoops == LoopsInit /\ [][LoopsNext]_vars /\ WF_vars(LoopsNext)

\* one probe process
SpecCli == CliInit /\ [][CliNext]_vars

\* one call of the modulator, sample by sample
SpecMod == ModInit /\ [][ModNext]_vars

\* one recording handed to the sweep's SNR code and to analyze_spectrum
SpecSnr == SnrInit /\ [][SnrNext]_vars

\* two auto_probe runs on one host, from step 3 on
SpecRuns == RunsInit /\ [][RunsNext]_vars

\* the IPC client: the GUI thread and the receive threads
SpecIpc == IpcInit /\ [][IpcNext]_vars

(***************************************************************************)
(* Properties of the decision engine and of the automatic probe sequence   *)
(* (specification Spec)                                                    *)
(***************************************************************************)
Modes == {"ultrasonic", "audible", "file"}
Rank(mode) == IF mode = "ultrasonic" THEN 2 ELSE IF mode = "audible" THEN 1 ELSE 0

\* main has printed the report of a run with --snr and --per
DirectDone == pc = "done" /\ ~args.auto /\ {"snr", "per"} \subseteq args.has
\* main has printed the report of a run with --auto
AutoDone == pc = "done" /\ args.auto

C2_MonotoneLadder ==
    DirectDone =>
      /\ \A snr2 \in SnrValues :
           snr2 < args.snr =>
             Rank(decide_mode(snr2, args.per).mode) <= Rank(report.decision.mode)
      /\ \A per2 \in PerValues :
           per2 > args.per =>
             Rank(decide_mode(args.snr, per2).mode) <= Rank(report.decision.mode)

\* an audible decision that has both a lower mode below it (smaller snr) and
\* the same snr giving file at a larger per
C2_Witness ==
    /\ DirectDone
    /\ report.decision.mode = "audible"
    /\ \E snr2 \in SnrValues :
         snr2 < args.snr /\ decide_mode(snr2, args.per).mode = "file"
    /\ \E per2 \in PerValues :
         per2 > args.per /\ decide_mode(args.snr, per2).mode = "file"

StepFailed(st) ==
    IF st.step = "device_check"
    THEN "devices" \notin st.result.has \/ st.result.devices = "error"
    ELSE ~("success" \in st.result.has /\ st.result.success)

LastStep == steps[Len(steps)]

C4_FailureGivesFile ==
    (AutoDone /\ \E k \in 1..Len(steps) : StepFailed(steps[k]))
      => ("decision" \in report.has /\ report.decision.mode = "file")

\* the recv step fails after a sweep that measured 25 dB
C4_Witness ==
    /\ AutoDone
    /\ Len(steps) = 4
    /\ StepFailed(steps[4])
    /\ steps[2].result.snr_db = 250
    /\ report.snr_db = 250
    /\ report.decision.mode = "file"

SendFailed ==
    /\ AutoDone
    /\ Len(steps) >= 3
    /\ steps[3].step = "send_calibration"
    /\ StepFailed(steps[3])

C6_TimeoutFallback ==
    \A k \in 1..Len(steps) :
      steps[k].result.error = "timeout" =>
        /\ "success" \in steps[k].result.has
        /\ ~steps[k].result.success
        /\ steps[k].result.has \cap {"devices", "snr_db", "per"} = {}
        /\ k = Len(steps)
        /\ pc = "done"
        /\ report.decision.mode = "file"
        /\ k <= 2 => (~report.success /\ {"snr_db", "per"} \cap report.has = {})
        /\ k >= 3 => /\ report.success
                     /\ report.snr_db = steps[2].result.snr_db
                     /\ report.per = 100

\* recv times out after a sweep that measured 25 dB
C6_Witness ==
    /\ AutoDone
    /\ Len(steps) = 4
    /\ steps[4].result.error = "timeout"
    /\ steps[2].result.snr_db = 250
    /\ report.per = 100



(***************************************************************************)
(* Properties of the calibration link (specification SpecLink)             *)
(***************************************************************************)
\* demodulate_afsk has returned for one complete frame over the error-free channel
SingleDemodulated ==
    /\ cfg.kind = "single"
    /\ cfg.cut = 0
    /\ lpc \in {"extract", "report", "done"}

\* the record extract_packets appends for an undamaged frame
IntactRecord(seq) ==
    [seq |-> seq, valid_hash |-> TRUE, payload_match |-> TRUE, intact |-> TRUE]

C8_BatchEndToEnd ==
    (cfg.kind = "batch" /\ lpc = "done") =>
      /\ recv_report.success
      /\ recv_report.packets_found = cfg.n
      /\ packets = [k \in 1..cfg.n |-> IntactRecord(k - 1)]
      /\ recv_report.packets_intact = cfg.n
      /\ recv_report.packets_corrupted = 0
      /\ recv_report.packets_lost = 0
      /\ recv_report.per = 0
      /\ recv_report.quality = "excellent"

\* the batch of 10 frames has been received
C8_Witness ==
    /\ cfg.kind = "batch"
    /\ cfg.n = 10
    /\ lpc = "done"
    /\ recv_report.packets_found = 10
    /\ packets[10].seq = 9
    /\ recv_report.quality = "excellent"

\* offsets of the payload and of the digest in the 58-byte frame
PayloadOrDigest == 8..57

\* extract_packets has returned for a whole frame in a byte stream
FrameExtracted ==
    /\ cfg.kind = "bytes"
    /\ cfg.drop = 0
    /\ lpc \in {"report", "done"}

\* C9: extraction of an unmodified frame (with its length prefix) yields
\* exactly one record with the frame's seq and intact=true; after a change of
\* any single byte of the payload or of the digest it still yields exactly
\* one record with the same seq, and intact=false: the frame counts as
\* corrupted, not as lost.
C9_SingleByteCorruption ==
    FrameExtracted =>
      /\ cfg.pos = -1 => packets = <<IntactRecord(cfg.seq)>>
      /\ cfg.pos \in PayloadOrDigest =>
           /\ Len(packets) = 1
           /\ packets[1].seq = cfg.seq
           /\ ~packets[1].intact
           /\ lpc = "done" =>
                /\ recv_report.packets_corrupted = 1
                /\ recv_report.packets_lost = 0

\* a frame whose last digest byte was changed has been extracted and counted
C9_Witness ==
    /\ FrameExtracted
    /\ lpc = "done"
    /\ cfg.pos = 57
    /\ Len(packets) = 1
    /\ ~packets[1].intact
    /\ packets[1].payload_match
    /\ recv_report.packets_corrupted = 1

StreamReported == lpc = "done" /\ cfg.kind = "stream"

\* C11: for every expected count >= 0 and every list of extracted records
\* the reported PER lies in [0, 1], also when more packets are found than
\* expected and when expected is 0.
C11_PerInUnitInterval ==
    lpc = "done" => (recv_report.per >= 0 /\ recv_report.per <= PER_SCALE)

\* C12 as stated: packets_lost = max(0, expected - packets_found),
\* packets_intact + packets_corrupted = packets_found, and per is exactly
\* (packets_lost + packets_corrupted) / max(expected, 1).
C12_ExactRatio ==
    lpc = "done" =>
      /\ recv_report.packets_lost = Max(0, Expected(cfg) - recv_report.packets_found)
      /\ recv_report.packets_intact + recv_report.packets_corrupted
           = recv_report.packets_found
      /\ recv_report.per * Max(Expected(cfg), 1)
           = (recv_report.packets_lost + recv_report.packets_corrupted) * PER_SCALE

\* C12: in every recv report that carries the counts, packets_lost =
\* max(0, expected - packets_found), packets_intact + packets_corrupted =
\* packets_found, and per is (packets_lost + packets_corrupted) /
\* max(expected, 1) rounded to four decimals: it differs from the quotient by
\* at most 0.00005, and equals it when the quotient has at most four decimals.
C12_CountsAndRoundedPer ==
    lpc = "done" =>
      LET den == IF Expected(cfg) >= 1 THEN Expected(cfg) ELSE 1
          num == recv_report.packets_lost + recv_report.packets_corrupted
          off == recv_report.per * den - num * PER_SCALE
      IN  /\ recv_report.success
          /\ recv_report.packets_found = Len(packets)
          /\ \/ recv_report.packets_lost = Expected(cfg) - recv_report.packets_found
                  /\ recv_report.packets_lost >= 0
             \/ recv_report.packets_lost = 0
                  /\ Expected(cfg) - recv_report.packets_found <= 0
          /\ recv_report.packets_intact + recv_report.packets_corrupted
               = recv_report.packets_found
          /\ 2 * off <= den
          /\ -2 * off <= den
          /\ (num * PER_SCALE) % den = 0 => off = 0

\* two of three expected frames arrive intact: one lost, per = 0.3333
C12_Witness ==
    /\ StreamReported
    /\ Expected(cfg) = 3
    /\ recv_report.packets_found = 2
    /\ recv_report.packets_intact = 2
    /\ recv_report.packets_lost = 1
    /\ recv_report.per = 3333

(***************************************************************************)
(* Properties of the probe processes (specification SpecCli)               *)
(***************************************************************************)
\* the imports at the top of the script succeed
DepsOk ==
    /\ inv.probe \in NumpyProbes => inv.numpy
    /\ inv.probe = "sweep" => inv.sounddevice
\* the process got into main with a parsed command line and has exited
RanMain(probe) ==
    /\ cli_pc = "exited"
    /\ inv.probe = probe
    /\ DepsOk
    /\ inv.argv_ok
NyquistViolated == inv.sample_rate < 2 * (IF inv.freq0 >= inv.freq1 THEN inv.freq0 ELSE inv.freq1)

\* C13 as stated: whenever sample_rate < 2*max(freq0, freq1), modulation
\* fails with a Nyquist error and produces no samples, nothing is played and
\* no WAV file is written, for the modulator itself and for the send probe.
C13_NyquistFailsEverywhere ==
    ((RanMain("send") \/ (cli_pc = "returned" /\ inv.probe = "modulate"))
       /\ NyquistViolated) =>
      /\ proc.error = "nyquist"
      /\ proc.samples_made = 0
      /\ ~proc.played
      /\ ~proc.wav_written

\* C13: whenever sample_rate < 2*max(freq0, freq1), the send probe reports
\* success=false with a Nyquist error and exits 0 having built no PCM buffer,
\* played nothing and written no WAV file; at sample_rate >= 2*max(freq0,
\* freq1) it raises no Nyquist error.  The modulator called directly makes no
\* such check: it returns len(bits) * int(sample_rate / baud_rate) samples at
\* every sample rate.
C13_SendProbeNyquist ==
    /\ RanMain("send") =>
         /\ NyquistViolated =>
              /\ proc.printed
              /\ proc.exit_code = 0
              /\ proc.has = {"success", "error"}
              /\ ~proc.success
              /\ proc.error = "nyquist"
              /\ proc.samples_made = 0
              /\ ~proc.played
              /\ ~proc.wav_written
         /\ ~NyquistViolated => proc.error # "nyquist"
    /\ (cli_pc = "returned" /\ inv.probe = "modulate") =>
         /\ proc.error = "none"
         /\ proc.samples_made
              = (2 * PREAMBLE_PAIRS + 10 * Len(inv.data) + POSTAMBLE_BITS)
                * (inv.sample_rate \div 150)

\* the send probe was run with --sample-rate 32000 and freq1 = 20000
C13_Witness ==
    /\ RanMain("send")
    /\ inv.sample_rate = 32000
    /\ inv.freq1 = 20000
    /\ inv.has_output
    /\ inv.num_packets = 1
    /\ proc.error = "nyquist"
    /\ ~proc.wav_written

\* C14 as stated: every invocation of every probe, on every path, exits with
\* code 0 and prints a report that has a boolean `success` field.
C14_AlwaysExitZero ==
    (cli_pc = "exited" /\ inv.probe \in Probes) =>
      /\ proc.exit_code = 0
      /\ proc.printed
      /\ "success" \in proc.has

\* C14: send, recv, analyze and decide, run with a command line argparse
\* accepts and with numpy importable (decide imports nothing), exit with
\* code 0 after printing a report with a boolean `success` (and an `error`
\* when it is false); so does sweep without --check-only, with numpy and
\* sounddevice importable, unless generate_sweep raises, which ends it with
\* a traceback and exit code 1.  sweep --check-only exits 0 with a report
\* that has no `success`.  A missing numpy (for sweep also a missing
\* sounddevice) gives {"error": ...} and exit code 1; a rejected command
\* line gives exit code 2 and no report.
C14_ExitCodes ==
    (cli_pc = "exited" /\ inv.probe \in Probes) =>
      /\ ~DepsOk =>
           /\ proc.exit_code = 1
           /\ proc.printed
           /\ proc.has = {"error"}
      /\ (DepsOk /\ ~inv.argv_ok) =>
           /\ proc.exit_code = 2
           /\ ~proc.printed
      /\ (DepsOk /\ inv.argv_ok /\ inv.probe # "sweep") =>
           /\ proc.exit_code = 0
           /\ proc.printed
           /\ "success" \in proc.has
           /\ ~proc.success => "error" \in proc.has
      /\ (DepsOk /\ inv.argv_ok /\ inv.probe = "sweep" /\ inv.check_only) =>
           /\ proc.exit_code = 0
           /\ proc.printed
           /\ "success" \notin proc.has
      /\ (DepsOk /\ inv.argv_ok /\ inv.probe = "sweep" /\ ~inv.check_only) =>
           IF inv.device_ok /\ inv.output_sr >= 2 * 22000 /\ ~inv.duration_pos
           THEN proc.exit_code = 1 /\ ~proc.printed
           ELSE /\ proc.exit_code = 0
                /\ proc.printed
                /\ "success" \in proc.has

\* analyze was run without --input and without --live: success=false, exit 0
C14_Witness ==
    /\ RanMain("analyze")
    /\ ~inv.has_input
    /\ ~inv.live
    /\ proc.exit_code = 0
    /\ proc.printed
    /\ "success" \in proc.has
    /\ ~proc.success

\* the bits per sample a reader takes: 16 without a fmt chunk
EffectiveBits == IF inv.wav.fmt_bits = 0 THEN 16 ELSE inv.wav.fmt_bits

\* C15: reading a WAV file fails with an error, and the stage that reads it
\* reports success=false, whenever the container is not RIFF/WAVE, the bit
\* depth is unsupported, or no data chunk is present, for the reader of recv
\* as for the reader of analyze.
C15_WavReadersFail ==
    ((RanMain("recv") \/ RanMain("analyze")) /\ inv.has_input
       /\ (\/ ~inv.wav.riff
           \/ ~inv.wav.wave
           \/ EffectiveBits \notin {16, 32}
           \/ inv.wav.data = "absent")) =>
      /\ proc.printed
      /\ "success" \in proc.has
      /\ ~proc.success
      /\ "error" \in proc.has

(***************************************************************************)
(* Properties of the decision engine, continued (specification Spec)       *)
(***************************************************************************)
\* C16: every profile returned by decide_mode has a confidence in [0, 1]:
\* min(1, snr_db / 40) in the ultrasonic case, min(1, snr_db / 30) in the
\* audible case and exactly 1.0 in the file case.
C16_ConfidenceRange ==
    (pc = "done" /\ "decision" \in report.has) =>
      LET d == report.decision
          c == d.confidence
          snr == report.snr_db
      IN  /\ c >= 0
          /\ c <= CONF_ONE
          /\ d.mode \in Modes
          /\ d.mode = "ultrasonic" =>
               IF snr >= 400 THEN c = CONF_ONE ELSE 400 * c = snr * CONF_ONE
          /\ d.mode = "audible" =>
               IF snr >= 300 THEN c = CONF_ONE ELSE 300 * c = snr * CONF_ONE
          /\ d.mode = "file" => c = CONF_ONE

\* an ultrasonic profile at 45 dB, where snr_db / 40 exceeds 1 and is clamped
C16_Witness ==
    /\ DirectDone
    /\ args.snr = 450
    /\ report.decision.mode = "ultrasonic"
    /\ report.decision.confidence = CONF_ONE

(***************************************************************************)
(* Properties of UART reframing and of packet extraction                   *)
(* (specification SpecLink)                                                *)
(***************************************************************************)
\* the bytes cfg.data went through the modulator and the demodulator
DataDemodulated == cfg.kind = "data" /\ lpc \in {"extract", "report", "done"}

\* C17: for every byte sequence d, UART reframing of the bit stream the
\* modulator assembles for d returns exactly d: preamble and postamble
\* contribute no byte and no data byte is lost or altered, whatever the value
\* of the first data byte.
C17_ReframingReturnsData ==
    DataDemodulated => raw_data = cfg.data

\* the UART loop of demodulate_afsk is at the top of an iteration
InUartLoop == lpc = "uart"
\* the byte the loop has just appended
LastByte(raw) == raw[Len(raw)]

\* C18: in UART reframing a byte is emitted only at a cursor position i with
\* bits[i] = 0 and bits[i+9] = 1, its value is bits[i+1..i+8] read MSB-first
\* and the cursor then advances by exactly 10; at a start bit whose stop bit
\* is 0 nothing is emitted and the cursor advances by exactly 1; at a 1 bit
\* the cursor advances by 1; a start bit with fewer than 10 bits remaining
\* emits nothing.
C18_UartStep ==
    [][InUartLoop =>
        LET i == demod_i
            n == Len(bits)
            start == i < n /\ bits[i + 1] = 0
            room == i + 10 <= n
        IN  /\ raw_bytes' # raw_bytes =>
                 /\ start
                 /\ room
                 /\ bits[i + 10] = 1
            /\ (start /\ room /\ bits[i + 10] = 1) =>
                 /\ Len(raw_bytes') = Len(raw_bytes) + 1
                 /\ \A k \in 1..Len(raw_bytes) : raw_bytes'[k] = raw_bytes[k]
                 /\ LastByte(raw_bytes') \in 0..255
                 /\ \A k \in 1..8 :
                      (LastByte(raw_bytes') \div 2 ^ (8 - k)) % 2 = bits[i + 1 + k]
                 /\ demod_i' = i + 10
                 /\ lpc' = "uart"
            /\ (start /\ room /\ bits[i + 10] = 0) =>
                 /\ raw_bytes' = raw_bytes
                 /\ demod_i' = i + 1
                 /\ lpc' = "uart"
            /\ (i < n /\ bits[i + 1] = 1) =>
                 /\ raw_bytes' = raw_bytes
                 /\ demod_i' = i + 1
                 /\ lpc' = "uart"
            /\ (start /\ ~room) =>
                 /\ raw_bytes' = raw_bytes
                 /\ raw_data' = raw_bytes
                 /\ lpc' = "extract"
    ]_vars

\* on the bits 0,0,1,0,1,0,0,1,1,0,1 the start bit at 0 has the stop bit 0
\* and slides to 1, where the byte 10100110 is emitted and the cursor is 11
C18_Witness ==
    /\ InUartLoop
    /\ cfg.kind = "line"
    /\ bits = <<0, 0, 1, 0, 1, 0, 0, 1, 1, 0, 1>>
    /\ demod_i = 11
    /\ raw_bytes = <<166>>

\* C19: for every bit sequence UART reframing terminates without reading
\* outside the sequence, and for every byte stream extract_packets
\* terminates without reading outside the stream: in both loops the cursor
\* strictly increases on every iteration until the loop exits.
C19_LoopsTerminate ==
    /\ [][/\ (lpc = "uart" /\ lpc' = "uart") =>
               /\ demod_i' > demod_i
               /\ demod_i' <= Len(bits)
               /\ bits[demod_i + 1] = 0 => demod_i + 9 < Len(bits)
          /\ (lpc = "extract" /\ lpc' = "extract") =>
               /\ extract_i' > extract_i
               /\ extract_i' <= Len(raw_data)
               /\ MagicIdx >= extract_i
               /\ MagicIdx + Len(CALIBRATION_MAGIC) <= Len(raw_data)
               /\ packets' # packets =>
                    /\ MagicIdx >= 2
                    /\ PacketEnd(MagicIdx) <= Len(raw_data)
       ]_vars
    /\ [](lpc = "uart" => (demod_i >= 0 /\ demod_i <= Len(bits)))
    /\ [](lpc = "extract" => (extract_i >= 0 /\ extract_i <= Len(raw_data)))
    /\ <>(lpc = "done")

\* the UART loop left by `break` at a start bit with one bit remaining, after
\* one byte, and the extraction loop finished as well
C19_Witness ==
    /\ lpc = "done"
    /\ cfg.kind = "line"
    /\ Len(bits) = 11
    /\ bits[11] = 0
    /\ demod_i = 10
    /\ Len(raw_data) = 1

\* C20 as stated: after a packet with its magic at m and the length field L
\* is recorded, scanning resumes at m + L, and no byte of the stream belongs
\* to more than one recorded packet, a packet's bytes being [m - 2, m + L).
C20_NoByteTwice ==
    /\ [][packets' # packets => extract_i' = MagicIdx + LengthAt(MagicIdx)]_vars
    /\ [](\A a, b \in 1..Len(extents) :
            a < b => extents[a][2] <= extents[b][1])

\* C20: after a packet with its magic at m and the length field L is
\* recorded, scanning resumes at m + L, and the bodies [m, m + L) of the
\* recorded packets are disjoint; the two length-prefix bytes of a later
\* packet may lie inside the body of the packet recorded before it, and no
\* other byte belongs to two recorded packets.
C20_ResumeAfterBody ==
    /\ [][packets' # packets =>
            /\ extract_i' = MagicIdx + LengthAt(MagicIdx)
            /\ extents' = Append(extents, <<MagicIdx - 2, MagicIdx + LengthAt(MagicIdx)>>)
            /\ MagicIdx >= extract_i
         ]_vars
    /\ [](/\ Len(extents) = Len(packets)
          /\ \A a, b \in 1..Len(extents) :
               a < b => extents[a][2] <= extents[b][1] + 2
          /\ lpc = "extract" =>
               \A a \in 1..Len(extents) : extents[a][2] <= extract_i)

\* two packets recorded, the length prefix of the second inside the body of
\* the first
C20_Witness ==
    /\ cfg.kind = "stream"
    /\ Len(extents) = 2
    /\ extents[2][1] < extents[1][2]
    /\ extract_i = extents[2][2]

(***************************************************************************)
(* Properties of extract_packets on single magics                           *)
(***************************************************************************)
\* the extractor is at the top of its loop and the next magic lies at m >= 2
MagicWithPrefix ==
    /\ InExtractLoop
    /\ MagicIdx >= 2

\* the big-endian value of the two bytes before the magic at 0-based offset m
PrefixValue(m) == raw_data[m - 1] * 256 + raw_data[m]

\* the magic at m has a length prefix other than 56 and m + length lies
\* within the stream
OddLengthInStream ==
    /\ MagicWithPrefix
    /\ PrefixValue(MagicIdx) # MIN_BODY
    /\ MagicIdx + PrefixValue(MagicIdx) <= Len(raw_data)

\* this step records, for the magic at m, the seq and intact parsed at m
RecordsAt(m) ==
    /\ Len(packets') = Len(packets) + 1
    /\ \A k \in 1..Len(packets) : packets'[k] = packets[k]
    /\ packets'[Len(packets')].seq = raw_data[m + 5] * 256 + raw_data[m + 6]
    /\ packets'[Len(packets')].intact =
         (/\ Slice(raw_data, m + 24, m + 56) = Sha256(Slice(raw_data, m, m + 24))
          /\ Slice(raw_data, m + 6, m + 24) = CALIBRATION_PAYLOAD)

\* C21 as stated: when the two bytes before a magic at m >= 2 encode a length
\* other than 56 and m + length does not exceed the stream length, the
\* extractor parses seq, payload and digest at m and records (seq, intact).
C21_RecordsAnyLength ==
    [][OddLengthInStream => RecordsAt(MagicIdx)]_vars

\* C21: with a length above 56 that stays within the stream the extractor
\* parses seq, payload and digest at m, records (seq, intact) and resumes at
\* m + length; with a length below 56 it records nothing and resumes at m + 1.
C21_RecordsLongerLength ==
    [][OddLengthInStream =>
         IF PrefixValue(MagicIdx) > MIN_BODY
         THEN /\ RecordsAt(MagicIdx)
              /\ extract_i' = MagicIdx + PrefixValue(MagicIdx)
              /\ lpc' = "extract"
         ELSE /\ packets' = packets
              /\ extract_i' = MagicIdx + 1
              /\ lpc' = "extract"
    ]_vars

\* a packet with the length field 58 has been recorded
C21_Witness ==
    /\ lpc = "extract"
    /\ Len(packets) >= 1
    /\ Len(extents) >= 1
    /\ extents[Len(extents)][2] - extents[Len(extents)][1] - 2 > MIN_BODY
    /\ extract_i = extents[Len(extents)][2]

\* extract_packets has returned
Extracted == lpc \in {"report", "done"}

\* a stream whose first frame lost its length prefix, nothing else replaced
EarlyMagicStream ==
    /\ cfg.kind = "stream"
    /\ cfg.pos = -1
    /\ Len(cfg.frames) >= 1
    /\ cfg.frames[1] \in EarlyVariants

\* the indices of the recorded packets that carry seq
RecordedWithSeq(seq) == {k \in 1..Len(packets) : packets[k].seq = seq}

\* the frame sent with seq is recorded exactly once, and as intact
RecordedOnceIntact(seq) ==
    /\ Cardinality(RecordedWithSeq(seq)) = 1
    /\ \A k \in RecordedWithSeq(seq) : packets[k].intact

\* C22: a magic found at offset m < 2 of the byte stream is never recorded as
\* a packet; the scan resumes at m + 1 and every later well-formed frame in
\* the stream is still recorded.
C22_EarlyMagicSkipped ==
    /\ [][(InExtractLoop /\ MagicIdx \in {0, 1}) =>
            /\ packets' = packets
            /\ extract_i' = MagicIdx + 1
            /\ lpc' = "extract"
         ]_vars
    /\ [](\A a \in 1..Len(extents) : extents[a][1] + 2 >= 2)
    /\ []((Extracted /\ EarlyMagicStream) =>
            \A j \in 2..Len(cfg.frames) :
                cfg.frames[j] = "ok" => RecordedOnceIntact(j - 1))

\* the first frame came without its length bytes and the two frames after it
\* are the two packets recorded
C22_Witness ==
    /\ Extracted
    /\ cfg.frames = <<"nolen", "ok", "ok">>
    /\ cfg.pos = -1
    /\ Len(packets) = 2
    /\ extents = <<<<FRAME_SIZE - 2, 2 * FRAME_SIZE - 2>>,
                   <<2 * FRAME_SIZE - 2, 3 * FRAME_SIZE - 2>>>>

(***************************************************************************)
(* Properties of the automatic probe sequence as a sequence of calls       *)
(***************************************************************************)
\* the four run_probe calls of auto_probe
CheckCall == Call("sweep.py", "check_only", NoneValue, NoneValue)
SweepCall == Call("sweep.py", "record", NoneValue, NoneValue)
SendCall == Call("send.py", "output", ULTRASONIC_FREQ0, ULTRASONIC_FREQ1)
RecvCall == Call("recv.py", "input", ULTRASONIC_FREQ0, ULTRASONIC_FREQ1)

\* C23 as stated: if the output device's sample rate is below 2 * max
\* carrier, the orchestrator short-circuits at the device-check step: it
\* returns a File decision and the sweep, send and recv steps are not run.
C23_ShortCircuitAtDeviceCheck ==
    (AutoDone /\ host.output_sr < 2 * ULTRASONIC_FREQ1) =>
        /\ report.decision.mode = "file"
        /\ calls = <<CheckCall>>

\* C23: if the output device's sample rate is below twice the sweep's end
\* frequency, the device-check step does not look at it.  Unless the device
\* check itself fails, the sweep is run and fails, with the sample-rate
\* error whenever it gets as far as run_sweep's check; the orchestrator then
\* returns success = false, the error "Sweep failed: ..." and the File
\* decision of decide_mode(0, 1.0).  The send and recv steps are not run.
C23_ShortCircuitAtSweep ==
    (AutoDone /\ host.output_sr < 2 * SWEEP_END) =>
        /\ report.decision = decide_mode(0, PER_ONE)
        /\ report.decision.mode = "file"
        /\ ~report.success
        /\ \/ /\ calls = <<CheckCall>>
              /\ report.error = "no_devices"
              /\ \/ "devices" \notin steps[1].result.has
                 \/ steps[1].result.devices = "error"
           \/ /\ calls = <<CheckCall, SweepCall>>
              /\ report.error = "sweep_failed"
              /\ steps[1].result.devices = "ok"
              /\ ~GetSuccess(steps[2].result)
              /\ steps[2].result.devices = "ok" => steps[2].result.error = "nyquist"

\* a 32000 Hz output device: the device check passed, the sweep reported the
\* sample-rate error and the report carries the File decision
C23_Witness ==
    /\ AutoDone
    /\ host.output_sr = 32000
    /\ calls = <<CheckCall, SweepCall>>
    /\ steps[2].result.error = "nyquist"
    /\ report.error = "sweep_failed"
    /\ report.decision.mode = "file"

\* the calls of a complete run, in the order of the code
ProbeSequence == <<CheckCall, SweepCall, SendCall, RecvCall>>
StepNames == <<"device_check", "sweep", "send_calibration", "recv_calibration">>

\* the device check returned a device table without an error
DeviceCheckOk(result) == "devices" \in result.has /\ result.devices # "error"

\* C24: in one run of the automatic probe sequence each sub-probe (device
\* check, sweep, send, recv) is invoked at most once and only in that order:
\* the sweep only after a successful device check, send only after a
\* successful sweep, recv only after a successful send; no step is retried,
\* and send and recv are always invoked with carriers 18000 and 20000.
C24_OncePerStepInOrder ==
    /\ Len(calls) <= Len(ProbeSequence)
    /\ \A k \in 1..Len(calls) : calls[k] = ProbeSequence[k]
    /\ Len(steps) = Len(calls)
    /\ \A k \in 1..Len(steps) : steps[k].step = StepNames[k]
    /\ Len(calls) >= 2 => DeviceCheckOk(steps[1].result)
    /\ Len(calls) >= 3 => GetSuccess(steps[2].result)
    /\ Len(calls) >= 4 => GetSuccess(steps[3].result)
    /\ \A k \in 1..Len(calls) :
         calls[k].script \in {"send.py", "recv.py"} =>
             calls[k].freq0 = 18000 /\ calls[k].freq1 = 20000

\* a complete run: the four calls, each once
C24_Witness ==
    /\ AutoDone
    /\ calls = ProbeSequence
    /\ GetSuccess(steps[4].result)

(***************************************************************************)
(* Properties of the transmitted batch                                     *)
(***************************************************************************)
\* round(num / den) for num >= 0, den > 0: to the nearest integer, ties to even
RoundDiv(num, den) ==
    LET q == num \div den
        r == num % den
    IN  IF 2 * r > den \/ (2 * r = den /\ q % 2 = 1) THEN q + 1 ELSE q

\* send.py built the whole batch and reported success
BatchSent == RanMain("send") /\ proc.success

\* C25: for a batch of n packets the transmitted buffer is the n modulated
\* packets with a silent gap between consecutive packets only: it contains
\* n - 1 gaps, each of round(sample_rate * gap_ms / 1000) zero samples, and
\* its total length is n * 628 * floor(sample_rate / baud)
\* + (n - 1) * round(sample_rate * gap_ms / 1000) samples.
C25_GapsBetweenPackets ==
    BatchSent =>
        proc.samples_made =
            inv.num_packets * 628 * (inv.sample_rate \div BAUD)
            + (inv.num_packets - 1)
                * RoundDiv(inv.sample_rate * inv.gap_ms, 1000 * GAP_SCALE)

(***************************************************************************)
(* Properties of the oscillator                                            *)
(***************************************************************************)
\* this step writes one sample
SampleWritten == osc'.count = osc.count + 1

\* the carrier of the bit the next sample belongs to
CurrentCarrier == IF osc.bits[osc.i + 1] = 0 THEN osc.freq0 ELSE osc.freq1

\* C26: within one modulation the oscillator phase only ever advances by
\* 2*pi*f/sample_rate per emitted sample, f being the carrier of the current
\* bit: at every bit boundary the phase used for the first sample of a bit
\* equals the phase of the last sample of the previous bit plus that previous
\* bit's per-sample increment, and the phase is never reset to 0 between bits.
C26_PhaseContinuous ==
    /\ [][/\ osc'.phase # osc.phase => SampleWritten
          /\ SampleWritten =>
               /\ osc'.last_phase = osc.phase
               /\ osc'.phase = osc.phase + CurrentCarrier
               /\ osc.count > 0 => osc'.last_phase = osc.last_phase + osc.last_inc
               /\ osc.count > 0 => osc'.last_phase > 0
         ]_vars
    /\ [](osc.pc = "loop" /\ osc.count = 0 => osc.phase = 0)

\* the first sample of the first start bit after the preamble: the preamble
\* ended on a 0 bit at freq0 and the phase went on from there
C26_Witness ==
    /\ osc.pc = "loop"
    /\ osc.samples_per_bit = 3
    /\ osc.freq0 = ULTRASONIC_FREQ0
    /\ osc.freq1 = ULTRASONIC_FREQ1
    /\ osc.i = 2 * PREAMBLE_PAIRS
    /\ osc.s = 1
    /\ osc.last_phase = PREAMBLE_PAIRS * 3 * (ULTRASONIC_FREQ0 + ULTRASONIC_FREQ1)
    /\ osc.last_inc = ULTRASONIC_FREQ0
    /\ Len(osc.bits) > 2 * PREAMBLE_PAIRS + POSTAMBLE_BITS

(***************************************************************************)
(* C27: for every recording the sweep averages the same FFT bins into      *)
(* signal_power and into noise_power as analyze_spectrum called with       *)
(* band_start, band_end, 100 and 0.8 * band_start does, bins exactly on a  *)
(* band edge included, so both report the same snr_db.                     *)
(***************************************************************************)
BothComputed == fft.sweep.done /\ fft.analyze.done

C27_SweepSameAsAnalyze ==
    BothComputed =>
        /\ fft.sweep.signal_bins = fft.analyze.signal_bins
        /\ fft.sweep.noise_bins = fft.analyze.noise_bins
        /\ fft.sweep.ratio = fft.analyze.ratio

\* what the two do share: the signal bins; the noise bins differ by the
\* bins exactly on the edges of the noise band
C27_BinsUpToEdges ==
    BothComputed =>
        /\ fft.sweep.signal_bins = fft.analyze.signal_bins
        /\ fft.sweep.noise_bins \subseteq fft.analyze.noise_bins
        /\ \A k \in fft.analyze.noise_bins \ fft.sweep.noise_bins :
              FftFreq(k) = 100 \/ 5 * FftFreq(k) = 4 * fft.start_freq

\* a 100 Hz component alone under the signal: the noise powers differ
C27_EdgeBinRecording ==
    /\ BothComputed
    /\ fft.power[1] = 2
    /\ fft.power[2] = 1
    /\ fft.power[170] = 1
    /\ fft.sweep.ratio # fft.analyze.ratio

(***************************************************************************)
(* Properties of extract_packets on a stream with one altered frame        *)
(***************************************************************************)
\* a stream of frames as sent in which one byte was replaced, or one frame
\* is a variant that differs from the frame sent
OneFrameAltered ==
    /\ cfg.kind = "stream"
    /\ \A j \in 1..Len(cfg.frames) : cfg.frames[j] \in FrameVariants
    /\ \/ cfg.pos >= 0 /\ cfg.frames = OkFrames(Len(cfg.frames))
       \/ cfg.pos = -1 /\ Cardinality({j \in 1..Len(cfg.frames) : cfg.frames[j] # "ok"}) = 1

\* the 1-based index of the altered frame
AlteredFrame ==
    IF cfg.pos >= 0 THEN cfg.pos \div FRAME_SIZE + 1
    ELSE CHOOSE j \in 1..Len(cfg.frames) : cfg.frames[j] # "ok"

\* the frame's length prefix and magic are as sent: the alteration lies in
\* seq, payload or digest
HeaderAsSent ==
    IF cfg.pos >= 0 THEN cfg.pos % FRAME_SIZE >= 6
    ELSE cfg.frames[AlteredFrame] = "bad"

\* the records made of the bytes of the j-th frame of the stream
RecordsOfFrame(j) ==
    {a \in 1..Len(extents) : extents[a] = <<(j - 1) * FRAME_SIZE, j * FRAME_SIZE>>}

\* the j-th frame is recorded exactly once, with its seq and as intact
FrameRecordedOnce(j) ==
    /\ Cardinality(RecordsOfFrame(j)) = 1
    /\ \A a \in RecordsOfFrame(j) : packets[a].seq = j - 1 /\ packets[a].intact

\* C28 as stated: in a stream of n frames as sent in which only bytes of one
\* frame k, its length prefix included, are altered, extract_packets records
\* every other frame exactly once with its seq and intact = true.
C28_OtherFramesRecorded ==
    [](Extracted /\ OneFrameAltered =>
          \A j \in 1..Len(cfg.frames) : j # AlteredFrame => FrameRecordedOnce(j))

\* C28: every frame before the altered frame k is recorded exactly once with
\* its seq and intact = true, and so is every frame after k when the length
\* prefix and the magic of k are as sent.
C28_FramesBeforeRecorded ==
    [](Extracted /\ OneFrameAltered =>
          \A j \in 1..Len(cfg.frames) :
              (j < AlteredFrame \/ (j > AlteredFrame /\ HeaderAsSent))
                  => FrameRecordedOnce(j))

\* the middle frame of three had a payload byte replaced: the first and the
\* third are recorded as intact, the middle one as not intact
C28_Witness ==
    /\ Extracted
    /\ OneFrameAltered
    /\ Len(cfg.frames) = 3
    /\ cfg.pos = FRAME_SIZE + PAYLOAD_OFFSET
    /\ Len(packets) = 3
    /\ packets[1].intact
    /\ ~packets[2].intact
    /\ packets[3].intact /\ packets[3].seq = 2

\* the low length byte of the first of three frames became 122: one packet
\* is recorded, reaching over the second frame and into the third
C28_LengthAlteredLosesFrames ==
    /\ Extracted
    /\ cfg = StreamHitCfg(3, 1, 122)
    /\ Len(packets) = 1
    /\ extents = <<<<0, 124>>>>

(***************************************************************************)
(* Properties of concurrent automatic probe runs                           *)
(***************************************************************************)
\* the run's recv step has read, or failed to read, the calibration file
HasReceived(r) == run[r].read # NotRead

\* C29: when two runs of the automatic probe sequence execute concurrently
\* on one host, each run's recv step reads the calibration WAV written by
\* that run's send step, no run's file being overwritten or deleted by the
\* other between its send and its recv; and after a run returns, the
\* calibration file it wrote no longer exists.
C29_RunsReadOwnFile ==
    /\ \A r \in Runs : HasReceived(r) => run[r].read = ReadOf({r})
    /\ \A r \in Runs :
          (run[r].pc = "done" /\ run[r].sent) => ~(cal_wav.exists /\ r \in cal_wav.writers)

\* run 1 removed the file between the send and the recv of run 2
C29_FileDeletedByOtherRun ==
    /\ run[1].pc = "done"
    /\ run[1].read = ReadOf({1})
    /\ run[2].sent
    /\ run[2].read = Missing

\* run 2 read a file that holds the data of run 1
C29_ReadOtherRunsFile ==
    /\ run[2].read = ReadOf({1})
    /\ run[1].sample_rate # run[2].sample_rate

(***************************************************************************)
(* Properties of the IPC client under concurrency                          *)
(***************************************************************************)
\* connected is true only with the socket set and open
ConnectedMeansOpen ==
    ipc.connected => (ipc.socket # 0 /\ socks[ipc.socket].open)

\* no receive thread has closed the socket of a later connection, or set
\* connected from True to False after a later connect() had set it
NoHarmFromEarlierThread ==
    /\ \A j \in 1..Len(socks) : socks[j].closed_by > GUI => socks[j].closed_by >= j
    /\ (~ipc.connected /\ ipc.unmarked_by > GUI) => ipc.unmarked_by >= ipc.conn

\* C30: in the IPC client, under every interleaving of the GUI thread
\* (connect, disconnect, send, reconnect) and the receive threads, connected
\* is true only while the socket is set and open, and a disconnect
\* triggered by the receive thread of an earlier connection never closes or
\* marks as disconnected a connection established later by connect().
C30_ConnectionsIsolated ==
    /\ ConnectedMeansOpen
    /\ NoHarmFromEarlierThread

\* the receive thread of the first connection has closed the socket of the
\* second and marked it disconnected
C30_LaterConnectionClosed ==
    /\ Len(socks) = 2
    /\ socks[2].closed_by = 1
    /\ ipc.conn = 2
    /\ ipc.unmarked_by = 1
    /\ ~ipc.connected

\* connected is true while self.socket is None
C30_ConnectedWithoutSocket ==
    /\ ipc.connected
    /\ ipc.socket = 0

====
